---- MODULE Spec2Model ----
(***************************************************************************)
(* PasteMD: the hotkey-triggered workflow router, its workflows, the        *)
(* clipboard guard (preserve_clipboard) and the routing table built from    *)
(* the extensible-workflow configuration.                                   *)
(*                                                                          *)
(* Specifications:                                                          *)
(*   Spec        one hotkey press at a time: hotkey handler, router.route,  *)
(*               the workflow it dispatches, the clipboard and the          *)
(*               notifications of the press.                                *)
(*   SpecRoutes  _build_dynamic_routes as a function of the configuration   *)
(*               and the window title, over every configuration with at     *)
(*               most MaxBindings app bindings.                             *)
(*   SpecPlacer  one call of a placer's place().                            *)
(*   SpecPandoc  the converter's initialisation and one conversion.         *)
(*   SpecUi      the tray callbacks, the update checks and the UI task      *)
(*               queue of main().                                           *)
(*   SpecUpdate  the startup update check running beside a press.           *)
(*   SpecDetect  detect_active_app on Windows and on macOS.                 *)
(*   SpecRace    two route() executions inside preserve_clipboard.          *)
(*   SpecRequests  conversion requests one after another on one converter.  *)
(*   SpecHtml    is_plain_html_fragment on one fragment.                    *)
(*   SpecRoute   one call of route() over every configuration of            *)
(*               SpecRoutes.                                                *)
(*   SpecWord    WordPlacer.place() on macOS and the document it inserts    *)
(*               into.                                                      *)
(*   SpecWps     detect_wps_type on Windows and on macOS.                   *)
(***************************************************************************)
EXTENDS Naturals, Sequences, FiniteSets, TLC

VARIABLES
    cfg,        \* app_state.config["extensible_workflows"] read by the press
    title,      \* window_title local of route()
    target,     \* target_app local of route()
    routes,     \* routing table built by the press (NoRoutes outside route())
    wf,         \* workflow object selected by route()
    pc,         \* control location of the worker that runs the press
    running,    \* AppState.running
    inflight,   \* number of route() executions in progress
    dropped,    \* a hotkey press was ignored while this press was executing
    clip,       \* OS clipboard: format -> data (Absent when the format is not set)
    clip0,      \* clipboard at the start of the press
    snap,       \* snapshot local of preserve_clipboard (NoSnap before the guard)
    guardPre,   \* clipboard when the guard scope was entered
    ctype,      \* content_type local of execute
    exc,        \* exception in flight while a finally clause runs
    notes,      \* notifications emitted by the press, in order
    events,     \* observable steps of the press, in order
    escaped,    \* frames an exception has propagated out of
    arg,        \* argument of the component call under study ("none" in a press)
    results,    \* values the component call has returned, in order
    conv,       \* converter: the PandocIntegration held, config["pandoc_path"], the saved file
    ui          \* UI task queue, UI effects with the thread that ran them, threads,
                \* open dialogs and the hotkey listener

\* State of a component exercised on its own; a press leaves it alone.
aux == <<arg, results, conv, ui>>

vars == <<cfg, title, target, routes, wf, pc, running, inflight, dropped,
          clip, clip0, snap, guardPre, ctype, exc, notes, events, escaped, aux>>

(***************************************************************************)
(* Characters, titles and patterns.  Strings that the code inspects         *)
(* character by character (window titles, regex patterns) are sequences of  *)
(* one-character strings.                                                   *)
(***************************************************************************)
LowerChar(c) ==
    CASE c = "N" -> "n"
      [] c = "O" -> "o"
      [] c = "U" -> "u"
      [] OTHER -> c

CharMatches(p, c, ignorecase) ==
    \/ p = "."
    \/ IF ignorecase THEN LowerChar(p) = LowerChar(c) ELSE p = c

\* re.compile: the patterns the model draws are literals, "." and "x*";
\* a "*" with nothing to repeat raises re.error.
RegexValid(p) ==
    /\ (p # <<>> => p[1] # "*")
    /\ \A i \in 1..Len(p) : (p[i] = "*" /\ i > 1) => p[i-1] # "*"

RECURSIVE MatchHere(_, _, _)
RECURSIVE MatchStar(_, _, _, _)
MatchHere(p, s, ic) ==
    IF p = <<>> THEN TRUE
    ELSE IF Len(p) >= 2 /\ p[2] = "*"
         THEN MatchStar(p[1], SubSeq(p, 3, Len(p)), s, ic)
         ELSE /\ s # <<>>
              /\ CharMatches(p[1], s[1], ic)
              /\ MatchHere(Tail(p), Tail(s), ic)
MatchStar(c, p, s, ic) ==
    \/ MatchHere(p, s, ic)
    \/ /\ s # <<>>
       /\ CharMatches(c, s[1], ic)
       /\ MatchStar(c, p, Tail(s), ic)

\* re.search(pattern, s, flags): a match starting at any offset.
ReSearch(p, s, ic) ==
    \E k \in 1..(Len(s) + 1) : MatchHere(p, SubSeq(s, k, Len(s)), ic)

TitleEmpty    == <<>>
TitleNotion   == <<"U", "-", "N", "o">>
TitleObsidian == <<"U", "-", "O", "b">>
Titles == {TitleEmpty, TitleNotion, TitleObsidian}

PatNotion  == <<".", "*", "n", "o", ".", "*">>
PatObs     == <<"o", "b">>
PatAny     == <<".", "*">>
PatBad     == <<"*", "n">>
PatEmpty   == <<>>

(***************************************************************************)
(* Identities.  str.lower() on the identities the model draws.              *)
(***************************************************************************)
LowerId(s) ==
    CASE s = "Notion.exe" -> "notion.exe"
      [] s = "C:/Notion.exe" -> "c:/notion.exe"
      [] s = "C:/WINWORD.EXE" -> "c:/winword.exe"
      [] s = "WINWORD.EXE" -> "winword.exe"
      [] s = "Notion" -> "notion"
      [] s = "Microsoft Word" -> "microsoft word"
      [] s = "WPS Office" -> "wps office"
      [] s = "Electron" -> "electron"
      [] s = "Notion.ID" -> "notion.id"
      [] OTHER -> s

RESERVED_APPS == {"word", "wps", "excel", "wps_excel"}

(***************************************************************************)
(* WorkflowRouter                                                           *)
(***************************************************************************)
core_workflows ==
    [k \in RESERVED_APPS \cup {""} |->
        CASE k = "word"      -> "WordWorkflow"
          [] k = "wps"       -> "WPSWorkflow"
          [] k = "excel"     -> "ExcelWorkflow"
          [] k = "wps_excel" -> "WPSExcelWorkflow"
          [] OTHER           -> "FallbackWorkflow"]

\* extensible_registry, in insertion order
RegistryKeys == <<"html", "md", "latex">>

extensible_registry(key) ==
    CASE key = "html"  -> "HtmlWorkflow"
      [] key = "md"    -> "MdWorkflow"
      [] OTHER         -> "LatexWorkflow"

MatchWindowPatternsCaseSensitive(window_title, patterns) ==
    \E i \in 1..Len(patterns) :
        /\ patterns[i] # <<>>
        /\ RegexValid(patterns[i])
        /\ ReSearch(patterns[i], window_title, FALSE)

\* _match_window_patterns: empty patterns are skipped, an invalid pattern is
\* logged and skipped, the first pattern found by re.search decides.
MatchWindowPatterns(window_title, patterns) ==
    \E i \in 1..Len(patterns) :
        /\ patterns[i] # <<>>
        /\ RegexValid(patterns[i])
        /\ ReSearch(patterns[i], window_title, TRUE)

RegisterAppOverwrite(rt, workflow, app, window_title) ==
    LET app_key == LowerId(app.id)
        window_patterns == app.window_patterns
    IN  IF app_key = "" THEN rt
        ELSE IF window_patterns # <<>> /\ window_title # <<>>
             THEN IF MatchWindowPatterns(window_title, window_patterns)
                  THEN (app_key :> workflow) @@ rt
                  ELSE rt
             ELSE IF window_patterns = <<>>
                  THEN (app_key :> workflow) @@ rt
                  ELSE rt

RegisterAppEmptyKey(rt, workflow, app, window_title) ==
    LET app_key == LowerId(app.id)
        window_patterns == app.window_patterns
    IN  IF window_patterns # <<>> /\ window_title # <<>>
        THEN IF MatchWindowPatterns(window_title, window_patterns)
             THEN (app_key :> workflow) @@ rt
             ELSE rt
        ELSE IF window_patterns = <<>>
             THEN IF app_key \notin DOMAIN rt
                  THEN (app_key :> workflow) @@ rt
                  ELSE rt
             ELSE rt

\* One iteration of the inner loop of _build_dynamic_routes (router.py 63-85).
RegisterApp(rt, workflow, app, window_title) ==
    LET app_key == LowerId(app.id)
        window_patterns == app.window_patterns
    IN  IF app_key = "" THEN rt
        ELSE IF window_patterns # <<>> /\ window_title # <<>>
             THEN IF MatchWindowPatterns(window_title, window_patterns)
                  THEN (app_key :> workflow) @@ rt
                  ELSE rt
             ELSE IF window_patterns = <<>>
                  THEN IF app_key \notin DOMAIN rt
                       THEN (app_key :> workflow) @@ rt
                       ELSE rt
                  ELSE rt

RECURSIVE RegisterApps(_, _, _, _)
RegisterApps(rt, workflow, apps, window_title) ==
    IF apps = <<>> THEN rt
    ELSE RegisterApps(RegisterApp(rt, workflow, Head(apps), window_title),
                      workflow, Tail(apps), window_title)

RECURSIVE RegisterWorkflows(_, _, _, _)
RegisterWorkflows(rt, keys, ext_config, window_title) ==
    IF keys = <<>> THEN rt
    ELSE LET key == Head(keys)
             c   == ext_config[key]
             nxt == IF c.enabled
                    THEN RegisterApps(rt, extensible_registry(key), c.apps, window_title)
                    ELSE rt
         IN  RegisterWorkflows(nxt, Tail(keys), ext_config, window_title)

\* _build_dynamic_routes
BuildDynamicRoutes(ext_config, window_title) ==
    RegisterWorkflows(core_workflows, RegistryKeys, ext_config, window_title)

RouteLookupNoDefault(rt, target_app) ==
    IF target_app \in DOMAIN rt THEN rt[target_app] ELSE "None"

\* routes.get(target_app, routes[""])
RouteLookup(rt, target_app) ==
    IF target_app \in DOMAIN rt THEN rt[target_app] ELSE rt[""]

(***************************************************************************)
(* Configurations                                                           *)
(***************************************************************************)
App(id, patterns) == [id |-> id, window_patterns |-> patterns]

WfCfg(enabled, apps) == [enabled |-> enabled, apps |-> apps]

\* DEFAULT_CONFIG["extensible_workflows"]: the sections html, md, latex and
\* file, every one enabled, no apps.
DefaultCfg ==
    [html |-> WfCfg(TRUE, <<>>), md |-> WfCfg(TRUE, <<>>), latex |-> WfCfg(TRUE, <<>>),
     file |-> WfCfg(TRUE, <<>>)]

\* Bindings as the settings tab writes them.
NotionCfg ==
    [html  |-> WfCfg(TRUE, <<App("Notion.exe", <<PatNotion>>)>>),
     md    |-> WfCfg(TRUE, <<App("obsidian.exe", <<>>)>>),
     latex |-> WfCfg(TRUE, <<App("overleaf.exe", <<>>)>>),
     file  |-> WfCfg(TRUE, <<>>)]

\* A hand-edited configuration file: load() copies user values unvalidated.
HandEditedCfg ==
    [html  |-> WfCfg(TRUE, <<App("word", <<PatAny>>)>>),
     md    |-> WfCfg(FALSE, <<App("obsidian.exe", <<>>)>>),
     latex |-> WfCfg(TRUE, <<App("overleaf.exe", <<PatBad, PatObs>>)>>),
     file  |-> WfCfg(TRUE, <<>>)]

\* A binding of the file section as the settings tab writes it.
FileCfg ==
    [html  |-> WfCfg(TRUE, <<>>),
     md    |-> WfCfg(TRUE, <<>>),
     latex |-> WfCfg(TRUE, <<>>),
     file  |-> WfCfg(TRUE, <<App("obsidian.exe", <<>>)>>)]

PressConfigs == {DefaultCfg, NotionCfg, HandEditedCfg, FileCfg}

\* Values detect_active_app returns in a press: the reserved identities, ""
\* and the identity of any other foreground application.
Targets == RESERVED_APPS \cup {"", "notion.exe", "obsidian.exe", "overleaf.exe"}

NoRoutes == [k \in {} |-> ""]

(***************************************************************************)
(* Clipboard                                                                *)
(***************************************************************************)
Absent == "absent"

Formats == {"text", "html", "files"}

UserTexts == {Absent, "blank", "md", "md_long", "table"}
UserHtmls == {Absent, "plain", "rich"}
UserFiles == {Absent, "md_files", "table_files"}

Clip(t, h, f) == [text |-> t, html |-> h, files |-> f]

UserClipboards == {Clip(t, h, f) : t \in UserTexts, h \in UserHtmls, f \in UserFiles}

EmptyClipboard == Clip(Absent, Absent, Absent)

\* is_clipboard_files
is_clipboard_files(c) == c.files # Absent

\* "not text or not text.strip()"
IsBlankText(t) == t \in {Absent, "blank"}

\* is_clipboard_empty; a failed read of the text counts as empty.
is_clipboard_empty(c, text_read_ok) ==
    IF is_clipboard_files(c) THEN FALSE
    ELSE IF text_read_ok THEN IsBlankText(c.text) ELSE TRUE

\* is_plain_html_fragment on the fragments the model draws
is_plain_html_fragment(h) == h = "plain"

\* parse_markdown_table(text) is not None
IsTable(t) == t = "table"

\* md_text.count('\n') + 1 >= 100
IsLong(t) == t = "md_long"

\* A snapshot entry: the bytes kept for one format and how they were made.
NoData == [enc |-> "none", val |-> Absent]

\* _snapshot_clipboard, one format: str -> utf-16le bytes, bytes as they are,
\* a file list joined and encoded.
SnapshotFormat(f, data) ==
    IF data = Absent THEN NoData
    ELSE CASE f = "text"  -> [enc |-> "utf-16le", val |-> data]
           [] f = "html"  -> [enc |-> "raw", val |-> data]
           [] OTHER       -> [enc |-> "utf-16le-list", val |-> data]

SnapshotOutcomes == {"ok", "open_failed"} \cup {"get_failed_" \o f : f \in {"text", "html"}}

\* _snapshot_clipboard: every failure is logged and swallowed; a failure to
\* open the clipboard leaves the snapshot empty, a failure on one format
\* leaves that format out.
SnapshotClipboard(c, outcome) ==
    [f \in Formats |->
        IF outcome = "open_failed" \/ outcome = "get_failed_" \o f
        THEN NoData
        ELSE SnapshotFormat(f, c[f])]

RestoreFormatNoDecode(f, entry) ==
    CASE entry.enc = "none" -> Absent
      [] entry.enc = "raw" -> entry.val
      [] OTHER -> "garbled"

\* _restore_clipboard, one format: decode what the snapshot encoded.
RestoreFormat(f, entry) ==
    CASE entry.enc = "none" -> Absent
      [] f = "text" /\ entry.enc = "utf-16le" -> entry.val
      [] f = "files" /\ entry.enc = "utf-16le-list" -> entry.val
      [] f = "html" /\ entry.enc = "raw" -> entry.val
      [] OTHER -> "garbled"

RestoreOutcomes == {"ok", "open_failed"} \cup {"set_failed_" \o f : f \in {"text", "html"}}

\* _restore_clipboard that gives up at the first format it cannot set
RestoreClipboardAbort(c, snapshot, outcome) ==
    IF outcome = "open_failed" THEN c
    ELSE IF outcome # "ok" THEN EmptyClipboard
    ELSE [f \in Formats |-> RestoreFormat(f, snapshot[f])]

\* _restore_clipboard: EmptyClipboard, then SetClipboardData per format; a
\* failure on one format is logged and the loop continues; a failure to open
\* the clipboard leaves it as it is.
RestoreClipboard(c, snapshot, outcome) ==
    IF outcome = "open_failed" THEN c
    ELSE [f \in Formats |->
            IF outcome = "set_failed_" \o f THEN Absent
            ELSE RestoreFormat(f, snapshot[f])]

NoSnap == [taken |-> FALSE, data |-> [f \in Formats |-> NoData]]

\* pyperclip.copy(text): the clipboard then holds the text alone.
set_clipboard_text(t) == Clip(t, Absent, Absent)

\* set_clipboard_rich_text(html=..., text=...)
set_clipboard_rich_text(h, t) == Clip(t, h, Absent)

(***************************************************************************)
(* Notifications and exceptions                                             *)
(***************************************************************************)
Note(key, ok) == [msg |-> key, ok |-> ok]

NotifyTwice(ns, n) == Append(Append(ns, n), n)

\* notification_manager.notify(title, message, ok): one message is shown; the
\* call reports a failure to show it by its return value and does not raise.
Notify(ns, n) == Append(ns, n)

Generic == Note("workflow.generic.failure", FALSE)

Exceptions == {"ClipboardError", "PandocError", "InsertError", "Exception"}

IsClipboardError(e) == e \in {"ClipboardError", "ClipboardError:empty"}

\* What an except clause yields when no clause of the try statement matches.
Uncaught == Note("uncaught", FALSE)

HtmlExceptNoCatchAll(e) ==
    IF IsClipboardError(e) THEN Note("workflow.clipboard.read_failed", FALSE)
    ELSE IF e = "PandocError" THEN Note("workflow.html.convert_failed_generic", FALSE)
    ELSE Uncaught

\* except clauses of HtmlWorkflow.execute
HtmlExcept(e) ==
    IF IsClipboardError(e) THEN Note("workflow.clipboard.read_failed", FALSE)
    ELSE IF e = "PandocError" THEN Note("workflow.html.convert_failed_generic", FALSE)
    ELSE Generic

\* except clauses of LatexWorkflow.execute
LatexExcept(e) ==
    IF IsClipboardError(e) THEN Note("workflow.clipboard.read_failed", FALSE)
    ELSE IF e = "PandocError" THEN Note("workflow.html.convert_failed_generic", FALSE)
    ELSE Generic

\* except clauses of MdWorkflow.execute (no clause for PandocError)
MdExcept(e) ==
    IF IsClipboardError(e) THEN Note("workflow.clipboard.read_failed", FALSE)
    ELSE Generic

\* except clauses of FallbackWorkflow.execute
FallbackExcept(e, ct) ==
    IF IsClipboardError(e)
    THEN IF e = "ClipboardError:empty"
         THEN Note("workflow.clipboard.empty", FALSE)
         ELSE Note("workflow.clipboard.read_failed", FALSE)
    ELSE IF e = "PandocError"
         THEN IF ct = "html"
              THEN Note("workflow.html.convert_failed_generic", FALSE)
              ELSE Note("workflow.markdown.convert_failed", FALSE)
         ELSE Generic

\* except clauses of OfficeOmmlBaseWorkflow.execute
OfficeExcept(e, ct) ==
    IF IsClipboardError(e) THEN Note("workflow.clipboard.read_failed", FALSE)
    ELSE IF e = "PandocError"
         THEN IF ct = "html"
              THEN Note("workflow.html.convert_failed_generic", FALSE)
              ELSE Note("workflow.markdown.convert_failed", FALSE)
         ELSE Generic

\* except clauses of PasteWorkflow.execute
PasteExcept(e) ==
    IF IsClipboardError(e) THEN Note("workflow.clipboard.read_failed", FALSE)
    ELSE IF e = "PandocError" THEN Note("workflow.markdown.convert_failed", FALSE)
    ELSE Generic

\* except clauses of PasteWorkflow._handle_html_to_word_flow
HtmlWordExcept(e) ==
    IF IsClipboardError(e) THEN Note("workflow.html.clipboard_failed", FALSE)
    ELSE IF e = "PandocError" THEN Note("workflow.html.convert_failed_format", FALSE)
    ELSE Note("workflow.html.convert_failed_generic", FALSE)

\* except clauses of PasteWorkflow._generate_and_open_document
GenDocExcept(e) ==
    IF e = "PandocError" THEN Note("workflow.markdown.convert_failed", FALSE)
    ELSE Note("workflow.document.generate_failed", FALSE)

\* except clauses of PasteWorkflow._generate_and_open_html_document
GenHtmlExcept(e) ==
    IF IsClipboardError(e) THEN Note("workflow.html.clipboard_failed", FALSE)
    ELSE IF e = "PandocError" THEN Note("workflow.html.convert_failed_format", FALSE)
    ELSE Note("workflow.html.generate_failed", FALSE)

(***************************************************************************)
(* Converter state                                                          *)
(***************************************************************************)
\* self._pandoc_integration = None; app_state.config["pandoc_path"] as the
\* user configured it; the configuration file as load() left it.
NoConv == [integration |-> "None", pandoc_path |-> "configured", saved_path |-> "configured"]

\* main() before the tray runs: app_state.ui_queue is an empty Queue, the
\* startup update check is started, app_state.icon is not set yet, the
\* polling of the queue is scheduled, no dialog is open and the hotkey
\* listener listens. put and ran record the tasks put on the queue and the
\* tasks executed, pauses and resumes the calls of the two callbacks.
NoUi == [queue |-> <<>>, effects |-> <<>>, tray |-> "init", startup |-> "running",
         checks |-> 0, clicks |-> 0, quit |-> FALSE, latest |-> "None",
         put |-> <<>>, ran |-> <<>>, armed |-> TRUE, dialogs |-> {},
         listener |-> "listening", pauses |-> 0, resumes |-> 0]

(***************************************************************************)
(* AppState                                                                 *)
(***************************************************************************)
IsRunningNever(r) == FALSE

\* AppState.is_running
is_running(r) == r

\* AppState.set_running
set_running(value) == value

MaxInflight == 2

(***************************************************************************)
(* The press                                                                *)
(***************************************************************************)
Has(ev) == \E i \in 1..Len(events) : events[i] = ev

Count(ev) == Cardinality({i \in 1..Len(events) : events[i] = ev})

Pos(ev) == CHOOSE i \in 1..Len(events) : events[i] = ev

Log(ev) == events' = Append(events, ev)

\* A step whose outcome o is logged; a PandocError raised by it is logged too.
LogStep(ev, o) ==
    events' = IF o = "PandocError" THEN events \o <<ev, "pandoc_error">>
              ELSE Append(events, ev)

Init ==
    /\ cfg = DefaultCfg
    /\ title = TitleEmpty
    /\ target = ""
    /\ routes = NoRoutes
    /\ wf = "None"
    /\ pc = "idle"
    /\ running = FALSE
    /\ inflight = 0
    /\ dropped = FALSE
    /\ clip \in UserClipboards
    /\ clip0 = clip
    /\ snap = NoSnap
    /\ guardPre = clip
    /\ ctype = "None"
    /\ exc = "none"
    /\ notes = <<>>
    /\ events = <<>>
    /\ escaped = {}
    /\ arg = "none"
    /\ results = <<>>
    /\ conv = NoConv
    /\ ui = NoUi

\* The hotkey callback: a press that arrives while a press is executing is
\* ignored; otherwise the running flag is raised and route() starts.
HotkeyPress ==
    IF is_running(running)
    THEN /\ dropped' = TRUE
         /\ UNCHANGED <<aux, cfg, title, target, routes, wf, pc, running, inflight,
                        clip, clip0, snap, guardPre, ctype, exc, notes, events, escaped>>
    ELSE /\ inflight < MaxInflight
         /\ running' = set_running(TRUE)
         /\ inflight' = inflight + 1
         /\ dropped' = FALSE
         /\ pc' = "route_detect"
         /\ clip0' = clip
         /\ guardPre' = clip
         /\ snap' = NoSnap
         /\ wf' = "None"
         /\ ctype' = "None"
         /\ exc' = "none"
         /\ notes' = <<>>
         /\ events' = <<>>
         /\ escaped' = {}
         /\ UNCHANGED <<aux, cfg, title, target, routes, clip>>

\* The end of the hotkey callback: the running flag is lowered.
WorkerDone ==
    /\ pc = "returned"
    /\ pc' = "idle"
    /\ running' = set_running(FALSE)
    /\ inflight' = inflight - 1
    /\ UNCHANGED <<aux, cfg, title, target, routes, wf, dropped, clip, clip0, snap,
                   guardPre, ctype, exc, notes, events, escaped>>

\* route(): detect_active_app() and get_frontmost_window_title()
RouteDetect ==
    /\ pc = "route_detect"
    /\ \E a \in Targets, w \in Titles :
          /\ target' = a
          /\ title' = w
    /\ pc' = "route_build"
    /\ UNCHANGED <<aux, cfg, routes, wf, running, inflight, dropped, clip, clip0, snap,
                   guardPre, ctype, exc, notes, events, escaped>>

\* route(): routes = _build_dynamic_routes(window_title);
\*          workflow = routes.get(target_app, routes[""])
RouteSelect ==
    /\ pc = "route_build"
    /\ \E c \in PressConfigs :
          LET rt == BuildDynamicRoutes(c, title)
          IN  /\ cfg' = c
              /\ routes' = rt
              /\ wf' = RouteLookup(rt, target)
              /\ Log(IF target \in DOMAIN rt THEN "hit" ELSE "miss")
    /\ pc' = "route_dispatch"
    /\ UNCHANGED <<aux, title, target, running, inflight, dropped, clip, clip0, snap,
                   guardPre, ctype, exc, notes, escaped>>

ExtensibleWorkflows == {"HtmlWorkflow", "MdWorkflow", "LatexWorkflow"}

CoreWorkflows == {"WordWorkflow", "WPSWorkflow", "ExcelWorkflow", "WPSExcelWorkflow"}

Workflows == ExtensibleWorkflows \cup CoreWorkflows \cup {"FallbackWorkflow"}

\* First control location of workflow.execute()
EntryPc(w) ==
    IF w \in ExtensibleWorkflows THEN "ext_read"
    ELSE IF w = "FallbackWorkflow" THEN "fb_detect"
    ELSE "pw_start"

\* route() reading the clipboard itself before it calls workflow.execute()
RouteDispatchReadFirst ==
    /\ pc = "route_dispatch"
    /\ IF wf \in Workflows
       THEN /\ pc' = EntryPc(wf)
            /\ events' = events \o <<"read", "execute">>
            /\ notes' = notes
       ELSE /\ pc' = "returned"
            /\ Log("router_except")
            /\ notes' = Notify(notes, Generic)
    /\ cfg' = DefaultCfg
    /\ routes' = NoRoutes
    /\ title' = TitleEmpty
    /\ UNCHANGED <<aux, target, wf, running, inflight, dropped, clip, clip0, snap,
                   guardPre, ctype, exc, escaped>>

\* route(): workflow.execute() inside try; except Exception notifies the
\* generic failure (reached here when the lookup produced no workflow object).
RouteDispatch ==
    /\ pc = "route_dispatch"
    /\ IF wf \in Workflows
       THEN /\ pc' = EntryPc(wf)
            /\ Log("execute")
            /\ notes' = notes
       ELSE /\ pc' = "returned"
            /\ Log("router_except")
            /\ notes' = Notify(notes, Generic)
    /\ cfg' = DefaultCfg
    /\ routes' = NoRoutes
    /\ title' = TitleEmpty
    /\ UNCHANGED <<aux, target, wf, running, inflight, dropped, clip, clip0, snap,
                   guardPre, ctype, exc, escaped>>

(***************************************************************************)
(* Extensible workflows: HtmlWorkflow, MdWorkflow, LatexWorkflow            *)
(***************************************************************************)
\* The except clauses of the try statement of w.execute, applied to e.
Handler(w, e, ct) ==
    CASE w = "HtmlWorkflow"       -> HtmlExcept(e)
      [] w = "MdWorkflow"         -> MdExcept(e)
      [] w = "LatexWorkflow"      -> LatexExcept(e)
      [] w = "FallbackWorkflow"   -> FallbackExcept(e, ct)
      [] w = "PowerPointWorkflow" -> OfficeExcept(e, ct)
      [] OTHER                    -> PasteExcept(e)

\* An exception reaches the try statement of execute: the matching clause
\* notifies; an exception no clause matches leaves execute and is caught by
\* the except clause of route().
RaiseInExecute(e) ==
    LET n == Handler(wf, e, ctype)
    IN  /\ notes' = Notify(notes, IF n = Uncaught THEN Generic ELSE n)
        /\ escaped' = IF n = Uncaught THEN escaped \cup {"execute"} ELSE escaped
        /\ pc' = "returned"

\* _read_clipboard of the extensible workflows
ExtRead ==
    /\ pc = "ext_read"
    /\ Log("read")
    /\ \E html_ok \in BOOLEAN, text_ok \in BOOLEAN :
          IF html_ok /\ clip.html # Absent /\ ~is_plain_html_fragment(clip.html)
          THEN /\ ctype' = "html"
               /\ pc' = "ext_to_md"
               /\ UNCHANGED <<notes, escaped>>
          ELSE IF ~is_clipboard_empty(clip, text_ok)
               THEN IF text_ok
                    THEN /\ ctype' = "markdown"
                         /\ pc' = "ext_convert"
                         /\ UNCHANGED <<notes, escaped>>
                    ELSE /\ ctype' = ctype
                         /\ RaiseInExecute("ClipboardError")
               ELSE /\ ctype' = ctype
                    /\ RaiseInExecute("ClipboardError:empty")
    /\ UNCHANGED <<aux, cfg, title, target, routes, wf, running, inflight, dropped,
                   clip, clip0, snap, guardPre, exc>>

ConvertOutcomes == {"ok", "PandocError", "Exception"}

\* html_preprocessor.process and convert_html_to_markdown_text
ExtToMd ==
    /\ pc = "ext_to_md"
    /\ \E o \in ConvertOutcomes :
          /\ LogStep("convert", o)
          /\ IF o = "ok"
             THEN /\ pc' = "ext_convert"
                  /\ UNCHANGED <<notes, escaped>>
             ELSE RaiseInExecute(o)
    /\ UNCHANGED <<aux, cfg, title, target, routes, wf, running, inflight, dropped,
                   clip, clip0, snap, guardPre, ctype, exc>>

\* markdown_preprocessor.process, then the conversion to the output format
\* (HtmlWorkflow: convert_markdown_to_html_text, LatexWorkflow:
\* convert_markdown_to_latex_text, MdWorkflow: none).
ExtConvert ==
    /\ pc = "ext_convert"
    /\ \E o \in ConvertOutcomes :
          /\ LogStep("convert", o)
          /\ IF o = "ok"
             THEN /\ pc' = IF wf = "MdWorkflow" THEN "md_write" ELSE "guard_enter"
                  /\ UNCHANGED <<notes, escaped>>
             ELSE /\ (wf = "MdWorkflow" => o = "Exception")
                  /\ RaiseInExecute(o)
    /\ UNCHANGED <<aux, cfg, title, target, routes, wf, running, inflight, dropped,
                   clip, clip0, snap, guardPre, ctype, exc>>

\* MdWorkflow.execute: set_clipboard_text(md_text)
MdWrite ==
    /\ pc = "md_write"
    /\ \E ok \in BOOLEAN :
          IF ok
          THEN /\ clip' = set_clipboard_text("out_md")
               /\ Log("write")
               /\ pc' = "md_paste"
               /\ UNCHANGED <<notes, escaped>>
          ELSE /\ clip' = clip
               /\ Log("write_failed")
               /\ RaiseInExecute("ClipboardError")
    /\ UNCHANGED <<aux, cfg, title, target, routes, wf, running, inflight, dropped,
                   clip0, snap, guardPre, ctype, exc>>

\* MdWorkflow.execute: simulate_paste()
MdPaste ==
    /\ pc = "md_paste"
    /\ \E ok \in BOOLEAN :
          IF ok
          THEN /\ Log("paste")
               /\ pc' = "ext_success"
               /\ UNCHANGED <<notes, escaped>>
          ELSE /\ Log("paste_failed")
               /\ RaiseInExecute("ClipboardError")
    /\ UNCHANGED <<aux, cfg, title, target, routes, wf, running, inflight, dropped,
                   clip, clip0, snap, guardPre, ctype, exc>>

\* _notify_success of the extensible workflows
ExtSuccess ==
    /\ pc = "ext_success"
    /\ notes' = Notify(notes,
                  Note(CASE wf = "HtmlWorkflow" -> "workflow.html_md.paste_success"
                         [] wf = "MdWorkflow"   -> "workflow.md.paste_success"
                         [] OTHER               -> "workflow.latex.paste_success",
                       TRUE))
    /\ pc' = "returned"
    /\ UNCHANGED <<aux, cfg, title, target, routes, wf, running, inflight, dropped,
                   clip, clip0, snap, guardPre, ctype, exc, events, escaped>>

(***************************************************************************)
(* preserve_clipboard                                                       *)
(***************************************************************************)
\* The placers whose place() puts a clipboard write and a paste keystroke
\* inside preserve_clipboard.
ClipboardPlacers ==
    {"PlainTextPastePlacer", "RichTextPastePlacer", "FilePastePlacer",
     "ClipboardHTMLSpreadsheetPlacer"}

\* The placers that run an AppleScript through osascript.
ScriptPlacers == {"WordPlacer", "ExcelPlacer"}

Placers == ClipboardPlacers \cup ScriptPlacers

\* copy_files_to_clipboard(paths)
copy_files_to_clipboard(paths) == Clip(Absent, Absent, paths)

\* What the guarded block writes.
GuardedWrite(w) ==
    CASE w = "LatexWorkflow"        -> set_clipboard_text("out_latex")
      [] w = "PlainTextPastePlacer" -> set_clipboard_text("content")
      [] w = "FilePastePlacer"      -> copy_files_to_clipboard("out_file")
      [] w = "ClipboardHTMLSpreadsheetPlacer"
                                    -> set_clipboard_rich_text("html_table", "tsv")
      [] OTHER                      -> set_clipboard_rich_text("out_html", "out_md")

\* Where control is once the with statement has been left: the statement
\* after it, or the except clause around it when the block raised.
AfterGuard(w, e) ==
    CASE w = "PowerPointWorkflow" -> IF e = "none" THEN "office_success" ELSE "office_error"
      [] w \in Placers           -> IF e = "none" THEN "place_ok" ELSE "place_except"
      [] OTHER                    -> "ext_success"

GuardEnterNoSnapshot ==
    /\ pc = "guard_enter"
    /\ pc' = "guard_write"
    /\ UNCHANGED <<aux, cfg, title, target, routes, wf, running, inflight, dropped,
                   clip, clip0, snap, guardPre, ctype, exc, notes, events, escaped>>

\* snapshot = _snapshot_clipboard()
GuardEnter ==
    /\ pc = "guard_enter"
    /\ \E o \in SnapshotOutcomes :
          snap' = [taken |-> TRUE, data |-> SnapshotClipboard(clip, o)]
    /\ guardPre' = clip
    /\ Log("snapshot")
    /\ pc' = "guard_write"
    /\ UNCHANGED <<aux, cfg, title, target, routes, wf, running, inflight, dropped,
                   clip, clip0, ctype, exc, notes, escaped>>

\* The block: set_clipboard_rich_text / set_clipboard_text
GuardWrite ==
    /\ pc = "guard_write"
    /\ \E ok \in BOOLEAN :
          IF ok
          THEN /\ clip' = GuardedWrite(wf)
               /\ Log("write")
               /\ exc' = exc
               /\ pc' = "guard_paste"
          ELSE /\ clip' = clip
               /\ Log("write_failed")
               /\ exc' = "ClipboardError"
               /\ pc' = "guard_sleep"
    /\ UNCHANGED <<aux, cfg, title, target, routes, wf, running, inflight, dropped,
                   clip0, snap, guardPre, ctype, notes, escaped>>

GuardPasteRetry ==
    /\ pc = "guard_paste"
    /\ \E ok \in BOOLEAN, again \in BOOLEAN :
          IF ok
          THEN /\ Log("paste")
               /\ exc' = exc
          ELSE /\ events' = events \o <<"paste_failed", IF again THEN "paste" ELSE "paste_failed">>
               /\ exc' = IF again THEN exc ELSE "ClipboardError"
    /\ pc' = "guard_sleep"
    /\ UNCHANGED <<aux, cfg, title, target, routes, wf, running, inflight, dropped,
                   clip, clip0, snap, guardPre, ctype, notes, escaped>>

\* The block: simulate_paste()
GuardPaste ==
    /\ pc = "guard_paste"
    /\ \E ok \in BOOLEAN :
          IF ok
          THEN /\ Log("paste")
               /\ exc' = exc
          ELSE /\ Log("paste_failed")
               /\ exc' = "ClipboardError"
    /\ pc' = "guard_sleep"
    /\ UNCHANGED <<aux, cfg, title, target, routes, wf, running, inflight, dropped,
                   clip, clip0, snap, guardPre, ctype, notes, escaped>>

GuardSleepNoFinally ==
    /\ pc = "guard_sleep"
    /\ IF exc = "none"
       THEN /\ Log("sleep")
            /\ pc' = "guard_restore"
            /\ UNCHANGED <<exc, notes, escaped>>
       ELSE /\ events' = events
            /\ exc' = IF wf \in Placers THEN exc ELSE "none"
            /\ IF wf = "PowerPointWorkflow" \/ wf \in Placers
               THEN /\ pc' = AfterGuard(wf, exc)
                    /\ UNCHANGED <<notes, escaped>>
               ELSE RaiseInExecute(exc)
    /\ UNCHANGED <<aux, cfg, title, target, routes, wf, running, inflight, dropped,
                   clip, clip0, snap, guardPre, ctype>>

\* finally: time.sleep(restore_delay_s)
GuardSleep ==
    /\ pc = "guard_sleep"
    /\ Log("sleep")
    /\ pc' = "guard_restore"
    /\ UNCHANGED <<aux, cfg, title, target, routes, wf, running, inflight, dropped,
                   clip, clip0, snap, guardPre, ctype, exc, notes, escaped>>

\* finally: if snapshot is not None: _restore_clipboard(snapshot); the
\* exception of the block, if any, then continues to the enclosing try.
GuardRestore ==
    /\ pc = "guard_restore"
    /\ IF snap.taken
       THEN \E o \in RestoreOutcomes :
               /\ clip' = RestoreClipboard(clip, snap.data, o)
               /\ events' = IF o = "ok" THEN Append(events, "restore")
                             ELSE events \o <<"restore", "restore_" \o o>>
       ELSE /\ clip' = clip
            /\ events' = events
    /\ snap' = snap
    /\ exc' = IF wf \in Placers THEN exc ELSE "none"
    /\ IF wf = "PowerPointWorkflow" \/ wf \in Placers \/ exc = "none"
       THEN /\ pc' = AfterGuard(wf, exc)
            /\ UNCHANGED <<notes, escaped>>
       ELSE RaiseInExecute(exc)
    /\ UNCHANGED <<aux, cfg, title, target, routes, wf, running, inflight, dropped,
                   clip0, guardPre, ctype>>

(***************************************************************************)
(* FallbackWorkflow                                                         *)
(***************************************************************************)
\* read_markdown_files_from_clipboard()[0]
HasMdFiles(c) == c.files \in {"md_files", "table_files"}

\* get_clipboard_text(), replaced by merge_markdown_contents(files_data)
\* when the clipboard holds Markdown files
MarkdownText(c) == IF c.files = "table_files" THEN "table"
                   ELSE IF HasMdFiles(c) THEN "md_merged" ELSE c.text

\* _detect_content_type with the HTML check ahead of the table check
DetectContentTypeHtmlFirst(c, html_ok) ==
    IF html_ok /\ c.html # Absent /\ ~is_plain_html_fragment(c.html)
    THEN "html"
    ELSE IF IsTable(MarkdownText(c)) THEN "table" ELSE "markdown"

\* _detect_content_type once the text is read: table, then HTML, then Markdown
DetectContentType(c, html_ok) ==
    IF IsTable(MarkdownText(c))
    THEN "table"
    ELSE IF html_ok /\ c.html # Absent /\ ~is_plain_html_fragment(c.html)
         THEN "html"
         ELSE "markdown"

\* _detect_content_type
FbDetect ==
    /\ pc = "fb_detect"
    /\ Log("read")
    /\ \E html_ok \in BOOLEAN, text_ok \in BOOLEAN, text_ok2 \in BOOLEAN :
          IF is_clipboard_empty(clip, text_ok)
          THEN /\ ctype' = ctype
               /\ RaiseInExecute("ClipboardError:empty")
          ELSE IF ~text_ok2
               THEN /\ ctype' = ctype
                    /\ RaiseInExecute("ClipboardError")
               ELSE /\ ctype' = DetectContentType(clip, html_ok)
                    /\ pc' = IF DetectContentType(clip, html_ok) = "table"
                             THEN "fb_table"
                             ELSE "fb_document"
                    /\ UNCHANGED <<notes, escaped>>
    /\ UNCHANGED <<aux, cfg, title, target, routes, wf, running, inflight, dropped,
                   clip, clip0, snap, guardPre, exc>>

\* _handle_table up to the call of output_executor.execute_xlsx
FbTable ==
    /\ pc = "fb_table"
    /\ Log("parse")
    /\ \E o \in {"ok", "ClipboardError", "Exception"} :
          IF o = "ok"
          THEN /\ pc' = "fb_output"
               /\ UNCHANGED <<notes, escaped>>
          ELSE RaiseInExecute(o)
    /\ UNCHANGED <<aux, cfg, title, target, routes, wf, running, inflight, dropped,
                   clip, clip0, snap, guardPre, ctype, exc>>

\* _handle_document up to the call of output_executor.execute_docx
FbDocument ==
    /\ pc = "fb_document"
    /\ \E o \in {"ok", "ClipboardError", "PandocError", "Exception"} :
          /\ LogStep("convert", o)
          /\ IF o = "ok"
             THEN /\ pc' = "fb_output"
                  /\ UNCHANGED <<notes, escaped>>
             ELSE RaiseInExecute(o)
    /\ UNCHANGED <<aux, cfg, title, target, routes, wf, running, inflight, dropped,
                   clip, clip0, snap, guardPre, ctype, exc>>

NoAppActions == {"open", "save", "clipboard", "none"}

\* OutputExecutor.execute_xlsx / execute_docx: one of the four no_app_action
\* values is carried out and its result is notified; the "clipboard" action
\* puts the generated file on the clipboard.
FbOutput ==
    /\ pc = "fb_output"
    /\ \E action \in NoAppActions, success \in BOOLEAN :
          /\ clip' = IF action = "clipboard" /\ success
                     THEN Clip(Absent, Absent, "out_file")
                     ELSE clip
          /\ notes' = Notify(notes, Note("output." \o action, success))
          /\ Log("output:" \o action)
    /\ pc' = "returned"
    /\ UNCHANGED <<aux, cfg, title, target, routes, wf, running, inflight, dropped,
                   clip0, snap, guardPre, ctype, exc, escaped>>

(***************************************************************************)
(* OfficeOmmlBaseWorkflow (PowerPointWorkflow)                              *)
(***************************************************************************)
\* PowerPointWorkflow.execute is started for a press; no key of the tables
\* of WorkflowRouter.__init__ maps to it.
OfficeExecute ==
    /\ pc = "route_detect"
    /\ wf' = "PowerPointWorkflow"
    /\ pc' = "office_read"
    /\ Log("execute")
    /\ UNCHANGED <<aux, cfg, title, target, routes, running, inflight, dropped, clip,
                   clip0, snap, guardPre, ctype, exc, notes, escaped>>

\* OfficeOmmlBaseWorkflow._read_clipboard
OfficeRead ==
    /\ pc = "office_read"
    /\ Log("read")
    /\ \E html_ok \in BOOLEAN, text_ok \in BOOLEAN :
          IF html_ok /\ clip.html # Absent /\ ~is_plain_html_fragment(clip.html)
          THEN /\ ctype' = "html"
               /\ pc' = "office_convert"
               /\ UNCHANGED <<notes, escaped>>
          ELSE IF HasMdFiles(clip)
               THEN /\ ctype' = "markdown"
                    /\ pc' = "office_convert"
                    /\ UNCHANGED <<notes, escaped>>
               ELSE IF ~is_clipboard_empty(clip, text_ok)
                    THEN IF text_ok
                         THEN /\ ctype' = "markdown"
                              /\ pc' = "office_convert"
                              /\ UNCHANGED <<notes, escaped>>
                         ELSE /\ ctype' = ctype
                              /\ RaiseInExecute("ClipboardError")
                    ELSE /\ ctype' = ctype
                         /\ RaiseInExecute("ClipboardError:empty")
    /\ UNCHANGED <<aux, cfg, title, target, routes, wf, running, inflight, dropped,
                   clip, clip0, snap, guardPre, exc>>

\* preprocessing, convert_html_to_markdown_text, convert_markdown_to_html_text,
\* MathML to OMML, Office HTML template
OfficeConvert ==
    /\ pc = "office_convert"
    /\ \E o \in ConvertOutcomes :
          /\ LogStep("convert", o)
          /\ IF o = "ok"
             THEN /\ pc' = "guard_enter"
                  /\ UNCHANGED <<notes, escaped>>
             ELSE RaiseInExecute(o)
    /\ UNCHANGED <<aux, cfg, title, target, routes, wf, running, inflight, dropped,
                   clip, clip0, snap, guardPre, ctype, exc>>

\* result = self.placer.place(...): RichTextPastePlacer.place returns
\* success=False for any exception of its guarded block; execute notifies
\* the success message or result.error.
OfficeNotify ==
    /\ pc \in {"office_success", "office_error"}
    /\ notes' = Notify(notes,
                  IF pc = "office_success"
                  THEN Note(IF ctype = "html" THEN "workflow.html.insert_success"
                            ELSE "workflow.word.insert_success", TRUE)
                  ELSE Note("result.error", FALSE))
    /\ pc' = "returned"
    /\ UNCHANGED <<aux, cfg, title, target, routes, wf, running, inflight, dropped,
                   clip, clip0, snap, guardPre, ctype, exc, events, escaped>>

(***************************************************************************)
(* PasteWorkflow: the flows of the reserved targets                         *)
(***************************************************************************)
WordTargets == {"word", "wps"}

ExcelTargets == {"excel", "wps_excel"}

\* _ensure_pandoc_integration followed by the conversion and the in-memory
\* DOCX processing
DocxOutcomes == {"ok", "init_failed", "PandocError", "Exception"}

\* PasteWorkflow.execute, lines 47-102: the empty check, the HTML detection
\* and the choice of the flow for the detected target.
PwStart ==
    /\ pc = "pw_start"
    /\ Log("read")
    /\ \E html_ok \in BOOLEAN, text_ok \in BOOLEAN, text_ok2 \in BOOLEAN,
          enable_excel \in BOOLEAN :
          LET should_use_html == /\ clip.html # Absent
                                 /\ html_ok
                                 /\ ~is_plain_html_fragment(clip.html)
          IN  IF is_clipboard_empty(clip, text_ok)
              THEN /\ notes' = Notify(notes, Note("workflow.clipboard.empty", FALSE))
                   /\ pc' = "returned"
                   /\ UNCHANGED <<ctype, escaped>>
              ELSE IF should_use_html /\ target \in WordTargets
                   THEN /\ ctype' = "html"
                        /\ pc' = "pw_html_word"
                        /\ UNCHANGED <<notes, escaped>>
                   ELSE IF ~text_ok2
                        THEN /\ ctype' = ctype
                             /\ RaiseInExecute("ClipboardError")
                        ELSE /\ ctype' = IF should_use_html THEN "html" ELSE "markdown"
                             /\ pc' = IF target \in ExcelTargets /\ enable_excel
                                      THEN "pw_excel"
                                      ELSE IF target \in WordTargets
                                           THEN "pw_word"
                                           ELSE "pw_no_app"
                             /\ UNCHANGED <<notes, escaped>>
    /\ UNCHANGED <<aux, cfg, title, target, routes, wf, running, inflight, dropped,
                   clip, clip0, snap, guardPre, exc>>

InsertOutcomes == {"True", "False", "InsertError", "Exception"}

\* _handle_excel_flow
PwExcel ==
    /\ pc = "pw_excel"
    /\ IF ~IsTable(clip.text)
       THEN /\ notes' = Notify(notes, Note("workflow.table.invalid_with_app", FALSE))
            /\ pc' = "returned"
            /\ Log("parse")
            /\ UNCHANGED escaped
       ELSE /\ Log("insert")
            /\ \E o \in InsertOutcomes :
                  CASE o = "True" ->
                         /\ notes' = Notify(notes, Note("workflow.table.insert_success", TRUE))
                         /\ pc' = "returned"
                         /\ UNCHANGED escaped
                    [] o = "False" ->
                         /\ pc' = "returned"
                         /\ UNCHANGED <<notes, escaped>>
                    [] o = "InsertError" ->
                         /\ notes' = Notify(notes, Note("workflow.table.insert_failed", FALSE))
                         /\ pc' = "returned"
                         /\ UNCHANGED escaped
                    [] OTHER -> RaiseInExecute(o)
    /\ UNCHANGED <<aux, cfg, title, target, routes, wf, running, inflight, dropped,
                   clip, clip0, snap, guardPre, ctype, exc>>

\* _handle_word_flow, lines 288-301: normalisation and the progress message
PwWordStart ==
    /\ pc = "pw_word"
    /\ notes' = IF IsLong(clip.text)
                THEN Notify(notes, Note("workflow.markdown.conversion_started", TRUE))
                ELSE notes
    /\ pc' = "pw_word_convert"
    /\ UNCHANGED <<aux, cfg, title, target, routes, wf, running, inflight, dropped,
                   clip, clip0, snap, guardPre, ctype, exc, events, escaped>>

\* _handle_word_flow, lines 303-324
PwWordConvert ==
    /\ pc = "pw_word_convert"
    /\ \E o \in DocxOutcomes :
          /\ LogStep("convert", o)
          /\ CASE o = "ok" ->
                 /\ pc' = "pw_word_insert"
                 /\ UNCHANGED <<notes, escaped>>
            [] o = "init_failed" ->
                 /\ notes' = Notify(notes, Note("workflow.pandoc.init_failed", FALSE))
                 /\ pc' = "returned"
                 /\ UNCHANGED escaped
            [] OTHER -> RaiseInExecute(o)
    /\ UNCHANGED <<aux, cfg, title, target, routes, wf, running, inflight, dropped,
                   clip, clip0, snap, guardPre, ctype, exc>>

\* _show_word_result
ShowWordResult(inserted) ==
    IF inserted THEN Note("workflow.word.insert_success", TRUE)
    ELSE Note("workflow.insert_failed_no_app", FALSE)

\* _handle_word_flow, lines 326-353: the insertion (_perform_word_insertion
\* turns InsertError into False), the optional save and the result message.
PwWordInsert ==
    /\ pc = "pw_word_insert"
    /\ Log("insert")
    /\ \E o \in {"True", "False", "Exception"}, keep_file \in BOOLEAN, saved \in BOOLEAN :
          IF o = "Exception"
          THEN RaiseInExecute(o)
          ELSE /\ notes' = LET n1 == IF keep_file /\ ~saved
                                     THEN Notify(notes, Note("workflow.document.save_failed", FALSE))
                                     ELSE notes
                           IN  Notify(n1, ShowWordResult(o = "True"))
               /\ pc' = "returned"
               /\ UNCHANGED escaped
    /\ UNCHANGED <<aux, cfg, title, target, routes, wf, running, inflight, dropped,
                   clip, clip0, snap, guardPre, ctype, exc>>

\* _handle_html_to_word_flow: every exception is handled by its own except
\* clauses; a failed save is only logged.
PwHtmlWord ==
    /\ pc = "pw_html_word"
    /\ \E o \in DocxOutcomes, inserted \in BOOLEAN :
          /\ LogStep("insert", o)
          /\ notes' = Notify(notes,
                     CASE o = "ok" /\ inserted  -> Note("workflow.html.insert_success", TRUE)
                       [] o = "ok" /\ ~inserted -> Note("workflow.insert_failed_no_app", FALSE)
                       [] o = "init_failed"     -> Note("workflow.pandoc.init_failed", FALSE)
                       [] OTHER                 -> HtmlWordExcept(o))
    /\ pc' = "returned"
    /\ UNCHANGED <<aux, cfg, title, target, routes, wf, running, inflight, dropped,
                   clip, clip0, snap, guardPre, ctype, exc, escaped>>

OpenOutcomes == DocxOutcomes \cup {"open_failed"}

\* _handle_no_app_flow, reached from execute for a spreadsheet target when
\* enable_excel is off (so _generate_and_open_spreadsheet is not reached):
\* _generate_and_open_html_document or _generate_and_open_document.
PwNoApp ==
    /\ pc = "pw_no_app"
    /\ \E auto_open \in BOOLEAN, o \in OpenOutcomes :
          /\ LogStep("generate", IF auto_open THEN o ELSE "ok")
          /\ notes' =
            IF ~auto_open
            THEN Notify(notes, Note("workflow.no_app_detected", FALSE))
            ELSE IF ctype = "html"
                 THEN Notify(notes,
                        CASE o = "ok"          -> Note("workflow.html.generated_and_opened", TRUE)
                          [] o = "open_failed" -> Note("workflow.document.open_failed", FALSE)
                          [] o = "init_failed" -> Note("workflow.pandoc.init_failed", FALSE)
                          [] OTHER             -> GenHtmlExcept(o))
                 ELSE Notify(IF IsLong(clip.text)
                             THEN Notify(notes, Note("workflow.markdown.conversion_started", TRUE))
                             ELSE notes,
                        CASE o = "ok"          -> Note("workflow.document.generated_and_opened", TRUE)
                          [] o = "open_failed" -> Note("workflow.document.open_failed", FALSE)
                          [] o = "init_failed" -> Note("workflow.pandoc.init_failed", FALSE)
                          [] OTHER             -> GenDocExcept(o))
    /\ pc' = "returned"
    /\ UNCHANGED <<aux, cfg, title, target, routes, wf, running, inflight, dropped,
                   clip, clip0, snap, guardPre, ctype, exc, escaped>>

Next ==
    \/ HotkeyPress
    \/ WorkerDone
    \/ RouteDetect
    \/ RouteSelect
    \/ RouteDispatch
    \/ ExtRead
    \/ ExtToMd
    \/ ExtConvert
    \/ MdWrite
    \/ MdPaste
    \/ ExtSuccess
    \/ GuardEnter
    \/ GuardWrite
    \/ GuardPaste
    \/ GuardSleep
    \/ GuardRestore
    \/ FbDetect
    \/ FbTable
    \/ FbDocument
    \/ FbOutput
    \/ OfficeExecute
    \/ OfficeRead
    \/ OfficeConvert
    \/ OfficeNotify
    \/ PwStart
    \/ PwExcel
    \/ PwWordStart
    \/ PwWordConvert
    \/ PwWordInsert
    \/ PwHtmlWord
    \/ PwNoApp

Spec == Init /\ [][Next]_vars

(***************************************************************************)
(* SpecRoutes: _build_dynamic_routes over every configuration               *)
(***************************************************************************)
MaxBindings == 2

BindIds == {"word", "Notion.exe"}

BindPatterns == {<<>>, <<PatAny>>, <<PatNotion>>, <<PatBad, PatEmpty>>}

\* App entries of a workflow's "apps" list; one entry has no id.
BindApps == {App(id, ps) : id \in BindIds, ps \in BindPatterns} \cup {App("", <<PatAny>>)}

\* How many bindings each of the three workflows has.
Splits == {m \in [1..3 -> 0..MaxBindings] : m[1] + m[2] + m[3] <= MaxBindings}

\* Every extensible_workflows table with at most MaxBindings app bindings.
InitRoutes ==
    /\ \E n \in Splits :
          \E e1 \in BOOLEAN, e2 \in BOOLEAN, e3 \in BOOLEAN,
             a1 \in [1..n[1] -> BindApps], a2 \in [1..n[2] -> BindApps],
             a3 \in [1..n[3] -> BindApps] :
                cfg = [html |-> WfCfg(e1, a1), md |-> WfCfg(e2, a2), latex |-> WfCfg(e3, a3),
                       file |-> WfCfg(TRUE, <<>>)]
    /\ title = TitleEmpty
    /\ target = ""
    /\ routes = NoRoutes
    /\ wf = "None"
    /\ pc = "loaded"
    /\ running = FALSE
    /\ inflight = 0
    /\ dropped = FALSE
    /\ clip = EmptyClipboard
    /\ clip0 = clip
    /\ snap = NoSnap
    /\ guardPre = clip
    /\ ctype = "None"
    /\ exc = "none"
    /\ notes = <<>>
    /\ events = <<>>
    /\ escaped = {}
    /\ arg = "none"
    /\ results = <<>>
    /\ conv = NoConv
    /\ ui = NoUi

\* routes = self._build_dynamic_routes(window_title)
BuildRoutes ==
    /\ pc = "loaded"
    /\ \E w \in Titles :
          /\ title' = w
          /\ routes' = BuildDynamicRoutes(cfg, w)
    /\ pc' = "built"
    /\ UNCHANGED <<aux, cfg, target, wf, running, inflight, dropped, clip, clip0, snap,
                   guardPre, ctype, exc, notes, events, escaped>>

NextRoutes == BuildRoutes

SpecRoutes == InitRoutes /\ [][NextRoutes]_vars

(***************************************************************************)
(* SpecPlacer: one invocation of a placer's place()                         *)
(***************************************************************************)
PlacementResult(success, error) == [success |-> success, error |-> error]

NoResult == PlacementResult(FALSE, "uncaught")

PlaceExceptClipboardOnly(e) ==
    IF IsClipboardError(e) THEN PlacementResult(FALSE, e) ELSE NoResult

\* except Exception as e: return PlacementResult(success=False, error=str(e))
PlaceExcept(e) == PlacementResult(FALSE, e)

\* What place() is called with: FilePastePlacer with or without a path,
\* ExcelPlacer with a table that has cells or has none.
PlaceArgs(w) ==
    CASE w = "FilePastePlacer" -> {"paths", "no_paths"}
      [] w = "ExcelPlacer"     -> {"table", "empty_table"}
      [] OTHER                 -> {"content"}

\* subprocess.run(["osascript", ...], check=True, timeout=30)
ScriptOutcomes == {"ok", "CalledProcessError", "TimeoutExpired"}

InitPlacer ==
    /\ wf \in Placers
    /\ arg \in PlaceArgs(wf)
    /\ clip \in UserClipboards
    /\ pc = "place_start"
    /\ cfg = DefaultCfg
    /\ title = TitleEmpty
    /\ target = ""
    /\ routes = NoRoutes
    /\ running = FALSE
    /\ inflight = 0
    /\ dropped = FALSE
    /\ clip0 = clip
    /\ snap = NoSnap
    /\ guardPre = clip
    /\ ctype = "None"
    /\ exc = "none"
    /\ notes = <<>>
    /\ events = <<>>
    /\ escaped = {}
    /\ results = <<>>
    /\ conv = NoConv
    /\ ui = NoUi

\* place() up to the with statement or the osascript call: the early return
\* of FilePastePlacer, the temporary file of WordPlacer, the script file of
\* ExcelPlacer and its return for a table without cells.
PlaceStart ==
    /\ pc = "place_start"
    /\ Log("place")
    /\ \E file_ok \in BOOLEAN :
          CASE wf = "FilePastePlacer" /\ arg = "no_paths" ->
                  /\ results' = Append(results, PlacementResult(FALSE, "no_file_paths"))
                  /\ pc' = "place_done"
                  /\ exc' = exc
            [] wf = "ExcelPlacer" /\ arg = "empty_table" ->
                  /\ results' = results
                  /\ pc' = "place_ok"
                  /\ exc' = exc
            [] wf \in ScriptPlacers /\ arg # "empty_table" ->
                  /\ results' = results
                  /\ pc' = IF file_ok THEN "place_script" ELSE "place_except"
                  /\ exc' = IF file_ok THEN exc ELSE "OSError"
            [] OTHER ->
                  /\ results' = results
                  /\ pc' = "guard_enter"
                  /\ exc' = exc
    /\ UNCHANGED <<ui, arg, conv, cfg, title, target, routes, wf, running, inflight, dropped,
                   clip, clip0, snap, guardPre, ctype, notes, escaped>>

\* The osascript run started again after a timeout.
PlaceScriptRetry ==
    /\ pc = "place_script"
    /\ \E o \in ScriptOutcomes, again \in ScriptOutcomes :
          IF o = "ok"
          THEN /\ Log("script")
               /\ pc' = "place_ok"
               /\ exc' = exc
          ELSE IF o = "TimeoutExpired" /\ again = "ok"
               THEN /\ events' = events \o <<"script_timeout", "script">>
                    /\ pc' = "place_ok"
                    /\ exc' = exc
               ELSE /\ Log(IF o = "TimeoutExpired" THEN "script_timeout" ELSE "script_failed")
                    /\ pc' = "place_except"
                    /\ exc' = "Exception"
    /\ UNCHANGED <<aux, cfg, title, target, routes, wf, running, inflight, dropped,
                   clip, clip0, snap, guardPre, ctype, notes, escaped>>

\* _applescript_insert / _applescript_insert_batch: one osascript run with
\* timeout=30; a nonzero exit or a timeout is raised as Exception.
PlaceScript ==
    /\ pc = "place_script"
    /\ \E o \in ScriptOutcomes :
          IF o = "ok"
          THEN /\ Log("script")
               /\ pc' = "place_ok"
               /\ exc' = exc
          ELSE /\ Log(IF o = "TimeoutExpired" THEN "script_timeout" ELSE "script_failed")
               /\ pc' = "place_except"
               /\ exc' = "Exception"
    /\ UNCHANGED <<aux, cfg, title, target, routes, wf, running, inflight, dropped,
                   clip, clip0, snap, guardPre, ctype, notes, escaped>>

\* return PlacementResult(success=True, ...)
PlaceReturn ==
    /\ pc = "place_ok"
    /\ results' = Append(results, PlacementResult(TRUE, ""))
    /\ pc' = "place_done"
    /\ UNCHANGED <<ui, arg, conv, cfg, title, target, routes, wf, running, inflight, dropped,
                   clip, clip0, snap, guardPre, ctype, exc, notes, events, escaped>>

\* The except clause of place().
PlaceFail ==
    /\ pc = "place_except"
    /\ LET r == PlaceExcept(exc)
       IN  IF r = NoResult
           THEN /\ escaped' = escaped \cup {"place"}
                /\ results' = results
           ELSE /\ escaped' = escaped
                /\ results' = Append(results, r)
    /\ exc' = "none"
    /\ pc' = "place_done"
    /\ UNCHANGED <<ui, arg, conv, cfg, title, target, routes, wf, running, inflight, dropped,
                   clip, clip0, snap, guardPre, ctype, notes, events>>

NextPlacer ==
    \/ PlaceStart
    \/ GuardEnter
    \/ GuardWrite
    \/ GuardPaste
    \/ GuardSleep
    \/ GuardRestore
    \/ PlaceScript
    \/ PlaceReturn
    \/ PlaceFail

SpecPlacer == InitPlacer /\ [][NextPlacer]_vars

(***************************************************************************)
(* SpecPandoc: _ensure_pandoc_integration followed by one conversion        *)
(***************************************************************************)
\* subprocess.run([pandoc_path, "--version"]) of PandocIntegration.__init__
ProbeOutcomes == {"ok", "nonzero", "FileNotFoundError", "OSError"}

\* PandocIntegration.__init__: a nonzero exit, FileNotFoundError and any
\* other exception of the probe are raised as PandocError.
PandocInit(o) == IF o = "ok" THEN "ok" ELSE "PandocError"

\* subprocess.run of a conversion (with os.makedirs(cwd) before it)
RunOutcomes == {"ok", "nonzero", "OSError"}

\* The conversion methods: returncode != 0 raises PandocError; the call of
\* subprocess.run is not inside a try statement.
RunResult(o) == IF o = "nonzero" THEN "PandocError" ELSE o

ConverterOwners == {"DocumentGenerator", "PasteWorkflow"}

\* The conversions an owner asks for.
ConverterOps(owner) ==
    IF owner = "PasteWorkflow"
    THEN {"md_to_docx", "html_to_docx"}
    ELSE {"md_to_docx", "html_to_docx", "html_to_md", "md_to_html"}

Returned(stage, v) == [stage |-> stage, kind |-> "return", value |-> v]

Raised(stage, e) == [stage |-> stage, kind |-> "raise", value |-> e]

HtmlToDocxDirect(keep) == "run_html_docx"

\* convert_html_to_docx_bytes: if Keep_original_formula: HTML -> Markdown ->
\* DOCX, else pandoc -f html -t docx.
HtmlToDocxRoute(keep) == IF keep THEN "run_html_md" ELSE "run_html_docx"

InitPandoc ==
    /\ \E w \in ConverterOwners, keep \in BOOLEAN :
          \E op \in ConverterOps(w) :
             arg = [owner |-> w, op |-> op, keep |-> keep]
    /\ conv \in {NoConv, [NoConv EXCEPT !.integration = "configured"]}
    /\ ui = NoUi
    /\ pc = "ensure"
    /\ results = <<>>
    /\ cfg = DefaultCfg
    /\ title = TitleEmpty
    /\ target = ""
    /\ routes = NoRoutes
    /\ wf = "None"
    /\ running = FALSE
    /\ inflight = 0
    /\ dropped = FALSE
    /\ clip = EmptyClipboard
    /\ clip0 = clip
    /\ snap = NoSnap
    /\ guardPre = clip
    /\ ctype = "None"
    /\ exc = "none"
    /\ notes = <<>>
    /\ events = <<>>
    /\ escaped = {}

\* _ensure_pandoc_integration: nothing to do when an integration is held,
\* else PandocIntegration(app_state.config["pandoc_path"]).
EnsureProbe ==
    /\ pc = "ensure"
    /\ IF conv.integration # "None"
       THEN /\ Log("held")
            /\ pc' = "convert"
            /\ conv' = conv
       ELSE \E o \in ProbeOutcomes :
               IF PandocInit(o) = "ok"
               THEN /\ Log("probe_ok:configured")
                    /\ conv' = [conv EXCEPT !.integration = "configured"]
                    /\ pc' = "convert"
               ELSE /\ Log("probe_failed:configured")
                    /\ conv' = conv
                    /\ pc' = "ensure_fallback"
    /\ UNCHANGED <<ui, arg, results, cfg, title, target, routes, wf, running, inflight,
                   dropped, clip, clip0, snap, guardPre, ctype, exc, notes, escaped>>

\* _ensure_pandoc_integration keeping the integration of the configured path
\* although its probe failed
EnsureFailedKeepsHandle(e) ==
    /\ results' = Append(results, IF arg.owner = "DocumentGenerator"
                                  THEN Raised("init", e)
                                  ELSE Returned("init", "None"))
    /\ notes' = notes
    /\ conv' = [conv EXCEPT !.integration = "configured"]

\* What _ensure_pandoc_integration does with an exception e of its inner try:
\* DocumentGenerator catches PandocError only, PasteWorkflow catches Exception,
\* notifies and leaves pandoc_integration None.
EnsureFailed(e) ==
    IF arg.owner = "DocumentGenerator"
    THEN /\ results' = Append(results, Raised("init", e))
         /\ notes' = notes
         /\ conv' = IF e = "PandocError" THEN conv
                    ELSE [conv EXCEPT !.integration = "default", !.pandoc_path = "default"]
    ELSE /\ results' = Append(results, Returned("init", "None"))
         /\ notes' = Notify(notes, Note("workflow.pandoc.init_failed", FALSE))
         /\ conv' = IF e = "PandocError" THEN conv
                    ELSE [conv EXCEPT !.pandoc_path = "default"]

\* The fallback that keeps the default path to itself: nothing is written
\* back to app_state.config and nothing is saved
EnsureFallbackNoWriteBack ==
    /\ pc = "ensure_fallback"
    /\ \E o \in ProbeOutcomes, save_ok \in BOOLEAN :
          IF PandocInit(o) = "ok"
          THEN /\ events' = events \o <<"probe_ok:default", "save_ok">>
               /\ conv' = [conv EXCEPT !.integration = "default"]
               /\ pc' = "convert"
               /\ UNCHANGED <<results, notes>>
          ELSE /\ Log("probe_failed:default")
               /\ EnsureFailed("PandocError")
               /\ pc' = "done"
    /\ UNCHANGED <<ui, arg, cfg, title, target, routes, wf, running, inflight,
                   dropped, clip, clip0, snap, guardPre, ctype, exc, escaped>>

\* The except clause of the first probe: PandocIntegration(DEFAULT_CONFIG
\* ["pandoc_path"]), app_state.config["pandoc_path"] = default,
\* ConfigLoader().save(app_state.config), which raises ConfigError when the
\* file cannot be written.
EnsureFallback ==
    /\ pc = "ensure_fallback"
    /\ \E o \in ProbeOutcomes, save_ok \in BOOLEAN :
          IF PandocInit(o) = "ok"
          THEN IF save_ok
               THEN /\ events' = events \o <<"probe_ok:default", "save_ok">>
                    /\ conv' = [integration |-> "default", pandoc_path |-> "default",
                                saved_path |-> "default"]
                    /\ pc' = "convert"
                    /\ UNCHANGED <<results, notes>>
               ELSE /\ events' = events \o <<"probe_ok:default", "save_failed">>
                    /\ EnsureFailed("ConfigError")
                    /\ pc' = "done"
          ELSE /\ Log("probe_failed:default")
               /\ EnsureFailed("PandocError")
               /\ pc' = "done"
    /\ UNCHANGED <<ui, arg, cfg, title, target, routes, wf, running, inflight,
                   dropped, clip, clip0, snap, guardPre, ctype, exc, escaped>>

\* The conversion method called once the integration is held.
ConvertDispatch ==
    /\ pc = "convert"
    /\ Log("convert:" \o arg.op)
    /\ pc' = CASE arg.op = "md_to_docx"   -> "run_md_docx"
               [] arg.op = "html_to_docx" -> HtmlToDocxRoute(arg.keep)
               [] arg.op = "html_to_md"   -> "run_html_md"
               [] OTHER                   -> "run_md_html"
    /\ UNCHANGED <<aux, cfg, title, target, routes, wf, running, inflight,
                   dropped, clip, clip0, snap, guardPre, ctype, exc, notes, escaped>>

\* One pandoc run: it returns its output or raises.
PandocRun(kind, o, value) ==
    /\ events' = events \o <<"run:" \o kind, "exit:" \o o>>
    /\ results' = Append(results, IF o = "ok" THEN Returned("convert", value)
                                  ELSE Raised("convert", RunResult(o)))
    /\ pc' = "done"

\* _convert_html_to_md; under convert_html_to_docx_bytes its Markdown goes on
\* to convert_to_docx_bytes.
ConvertHtmlToMd ==
    /\ pc = "run_html_md"
    /\ \E o \in RunOutcomes :
          IF o = "ok" /\ arg.op = "html_to_docx"
          THEN /\ events' = events \o <<"run:html>md", "exit:ok">>
               /\ pc' = "run_md_docx"
               /\ results' = results
          ELSE PandocRun("html>md", o, "md")
    /\ UNCHANGED <<ui, arg, conv, cfg, title, target, routes, wf, running, inflight,
                   dropped, clip, clip0, snap, guardPre, ctype, exc, notes, escaped>>

\* convert_to_docx_bytes
ConvertToDocx ==
    /\ pc = "run_md_docx"
    /\ \E o \in RunOutcomes : PandocRun("md>docx", o, "docx")
    /\ UNCHANGED <<ui, arg, conv, cfg, title, target, routes, wf, running, inflight,
                   dropped, clip, clip0, snap, guardPre, ctype, exc, notes, escaped>>

\* convert_html_to_docx_bytes, the run with -f html -t docx
ConvertHtmlToDocx ==
    /\ pc = "run_html_docx"
    /\ \E o \in RunOutcomes : PandocRun("html>docx", o, "docx")
    /\ UNCHANGED <<ui, arg, conv, cfg, title, target, routes, wf, running, inflight,
                   dropped, clip, clip0, snap, guardPre, ctype, exc, notes, escaped>>

\* convert_markdown_to_html_text
ConvertMdToHtml ==
    /\ pc = "run_md_html"
    /\ \E o \in RunOutcomes : PandocRun("md>html", o, "html")
    /\ UNCHANGED <<ui, arg, conv, cfg, title, target, routes, wf, running, inflight,
                   dropped, clip, clip0, snap, guardPre, ctype, exc, notes, escaped>>

NextPandoc ==
    \/ EnsureProbe
    \/ EnsureFallback
    \/ ConvertDispatch
    \/ ConvertHtmlToMd
    \/ ConvertToDocx
    \/ ConvertHtmlToDocx
    \/ ConvertMdToHtml

SpecPandoc == InitPandoc /\ [][NextPandoc]_vars

(***************************************************************************)
(* SpecRequests: conversion requests one after another on one converter     *)
(***************************************************************************)
\* Conversion requests made of one DocumentGenerator / PasteWorkflow
MaxRequests == 2

\* The caller has had its answer and asks for the next conversion; results
\* keeps the answers, events holds the steps of the request in progress
NextRequest ==
    /\ pc = "done"
    /\ Len(results) < MaxRequests
    /\ pc' = "ensure"
    /\ events' = <<>>
    /\ UNCHANGED <<aux, cfg, title, target, routes, wf, running, inflight,
                   dropped, clip, clip0, snap, guardPre, ctype, exc, notes, escaped>>

NextRequests ==
    \/ NextPandoc
    \/ NextRequest

SpecRequests == InitPandoc /\ [][NextRequests]_vars

(***************************************************************************)
(* SpecUi: tray callbacks, update checks and the UI task queue              *)
(***************************************************************************)
\* Tray callbacks taken in one run
MaxClicks == 3

\* A dialog shown or icon.menu replaced, and the thread that did it
Effect(e, th) == [effect |-> e, thread |-> th]

UiStep(u) ==
    /\ ui' = u
    /\ UNCHANGED <<arg, results, conv, cfg, title, target, routes, wf, pc, running,
                   inflight, dropped, clip, clip0, snap, guardPre, ctype, exc, notes,
                   events, escaped>>

InitUi ==
    /\ Init
    /\ clip = EmptyClipboard

\* tray_runner.run on its thread: app_state.icon = icon
TrayRun ==
    /\ ui.tray = "init"
    /\ UiStep([ui EXCEPT !.tray = "running"])

\* a menu item's callback runs on the tray thread
TrayCallback == ui.tray = "running" /\ ui.clicks < MaxClicks

\* update_version_info that also stops the tray icon and empties the UI task queue
update_version_info_drain(u, th) ==
    [u EXCEPT !.latest = "new", !.queue = <<>>, !.tray = "stopped",
              !.effects = Append(@, Effect("menu", th))]

\* update_version_info: self.latest_version, self.latest_release_url, then
\* icon.menu = self.build_menu() on the calling thread
update_version_info(u, th) ==
    [u EXCEPT !.latest = "new", !.effects = Append(@, Effect("menu", th))]

\* _check of check_update_in_background, on its own thread
CheckUpdate ==
    /\ ui.startup = "running"
    /\ \E has_update \in BOOLEAN :
          LET u == [ui EXCEPT !.startup = "done"]
          IN  UiStep(IF has_update /\ ui.tray # "init"
                     THEN update_version_info(u, "background")
                     ELSE u)

\* _on_check_update: starts check_in_background on a new thread
OnCheckUpdate ==
    /\ TrayCallback
    /\ UiStep([ui EXCEPT !.checks = @ + 1, !.clicks = @ + 1])

\* check_in_background of _on_check_update
CheckInBackground ==
    /\ ui.checks > 0
    /\ \E result \in {"None", "has_update", "latest", "raise"} :
          LET u == [ui EXCEPT !.checks = @ - 1]
          IN  UiStep(IF result = "has_update"
                     THEN update_version_info(u, "background")
                     ELSE u)

\* _on_toggle_enabled, _on_toggle_notify, _on_toggle_html_strikethrough:
\* icon.menu = self.build_menu() in the callback
OnToggle ==
    /\ TrayCallback
    /\ UiStep([ui EXCEPT !.effects = Append(@, Effect("menu", "tray")),
                         !.clicks = @ + 1])

\* ui_queue.put(task)
Put(u, task) == [u EXCEPT !.queue = Append(@, task), !.put = Append(@, task)]

\* _on_set_hotkey: ui_queue.put(show_dialog_on_main)
OnSetHotkey ==
    /\ TrayCallback
    /\ UiStep([Put(ui, "hotkey_dialog") EXCEPT !.clicks = @ + 1])

\* _on_open_settings: ui_queue.put(show_dialog_on_main)
OnOpenSettings ==
    /\ TrayCallback
    /\ UiStep([Put(ui, "settings_dialog") EXCEPT !.clicks = @ + 1])

\* The macOS reopen handler installed by main(): it calls _on_open_settings
\* whenever the application is reopened, whatever the state of the tray.
Reopen ==
    /\ ui.clicks < MaxClicks
    /\ UiStep([Put(ui, "settings_dialog") EXCEPT !.clicks = @ + 1])

\* _on_quit: icon.stop(), quit_event.set(), ui_queue.put(None)
OnQuit ==
    /\ TrayCallback
    /\ UiStep([Put(ui, "None") EXCEPT !.tray = "stopped", !.clicks = @ + 1])

\* show_dialog_on_main of _on_set_hotkey and _on_open_settings, for dialog d:
\* a live dialog is only focused; otherwise the listener is paused, the
\* dialog is built and shown (show() returns at once) and the finally
\* clause calls resume. o is "shown", "failed" (the constructor raised,
\* which the task reports itself) or "raised" (the resume callback raised
\* in the finally clause, which leaves the task).
ShowDialogOnMain(u, d, o) ==
    IF d \in u.dialogs
    THEN u
    ELSE [u EXCEPT !.pauses = @ + 1,
                   !.resumes = @ + 1,
                   !.listener = IF o = "raised" THEN "paused" ELSE "listening",
                   !.dialogs = IF o = "failed" THEN @ ELSE @ \cup {d},
                   !.effects = IF o = "failed" THEN @
                               ELSE Append(@, Effect("dialog", "ui"))]

TaskOutcomes == {"shown", "failed", "raised"}

\* process_ui_queue in which an exception of a task ends the polling
ProcessUiQueueNoCatch ==
    /\ ~ui.quit
    /\ ui.armed
    /\ IF ui.tray = "stopped"
       THEN UiStep([ui EXCEPT !.quit = TRUE, !.dialogs = {}])
       ELSE /\ ui.queue # <<>>
            /\ \E o \in TaskOutcomes :
                  LET d == Head(ui.queue)
                      raised == o = "raised" /\ d \notin ui.dialogs
                  IN  UiStep([ShowDialogOnMain(ui, d, o) EXCEPT
                                !.queue = Tail(@),
                                !.armed = ~raised,
                                !.ran = Append(@, [task |-> d, raised |-> raised])])

\* process_ui_queue on the thread of root.mainloop(): the quit event or the
\* quit signal ends the loop and destroys every window; any other task is
\* taken from the head of the queue and called, an exception it raises is
\* logged, and the finally clause schedules the next poll
ProcessUiQueue ==
    /\ ~ui.quit
    /\ ui.armed
    /\ IF ui.tray = "stopped"
       THEN UiStep([ui EXCEPT !.quit = TRUE, !.dialogs = {}])
       ELSE /\ ui.queue # <<>>
            /\ \E o \in TaskOutcomes :
                  LET d == Head(ui.queue)
                      raised == o = "raised" /\ d \notin ui.dialogs
                  IN  UiStep([ShowDialogOnMain(ui, d, o) EXCEPT
                                !.queue = Tail(@),
                                !.armed = TRUE,
                                !.ran = Append(@, [task |-> d, raised |-> raised])])

\* _on_close / _on_cancel of a dialog, on the UI thread: the close callback
\* (resume_hotkey_callback), then the window is destroyed
DialogClose ==
    /\ ~ui.quit
    /\ \E d \in ui.dialogs :
          UiStep([ui EXCEPT !.resumes = @ + 1,
                            !.listener = "listening",
                            !.dialogs = @ \ {d}])

\* _on_save of a dialog, on the UI thread: the save callback (save_hotkey,
\* on_settings_save) replaces the tray menu; SettingsDialog then calls the
\* close callback, HotkeyDialog does not; the window is destroyed
DialogSave ==
    /\ ~ui.quit
    /\ \E d \in ui.dialogs :
          LET u == [ui EXCEPT !.effects = Append(@, Effect("menu", "ui")),
                              !.dialogs = @ \ {d}]
          IN  UiStep(IF d = "settings_dialog"
                     THEN [u EXCEPT !.resumes = @ + 1, !.listener = "listening"]
                     ELSE u)

NextUi ==
    \/ TrayRun
    \/ CheckUpdate
    \/ OnCheckUpdate
    \/ CheckInBackground
    \/ OnToggle
    \/ OnSetHotkey
    \/ OnOpenSettings
    \/ Reopen
    \/ OnQuit
    \/ ProcessUiQueue
    \/ DialogClose
    \/ DialogSave

SpecUi == InitUi /\ [][NextUi]_vars

(***************************************************************************)
(* SpecUpdate: the startup update check running beside a press              *)
(***************************************************************************)
NextUpdate ==
    \/ Next
    \/ TrayRun
    \/ CheckUpdate

SpecUpdate == Init /\ [][NextUpdate]_vars

(***************************************************************************)
(* SpecDetect: detect_active_app on Windows and on macOS                    *)
(***************************************************************************)
\* process.exe() of the foreground window's process
WinExes == {"C:/Notion.exe", "C:/WINWORD.EXE", "c:/wps.exe", "c:/et.exe"}

\* os.path.basename
Basename(p) ==
    CASE p = "C:/Notion.exe" -> "Notion.exe"
      [] p = "C:/WINWORD.EXE" -> "WINWORD.EXE"
      [] p = "c:/wps.exe" -> "wps.exe"
      [] p = "c:/et.exe" -> "et.exe"
      [] OTHER -> p

get_foreground_process_path_unguarded(exe, ok) == LowerId(exe)

\* get_foreground_process_name / get_foreground_process_path: "" on failure
get_foreground_process_name(exe, ok) == IF ok THEN LowerId(Basename(exe)) ELSE ""
get_foreground_process_path(exe, ok) == IF ok THEN LowerId(exe) ELSE ""

\* sub in s, for the substrings the detectors test
Contains(sub, s) ==
    <<sub, s>> \in {<<"winword", "winword.exe">>, <<"wps", "wps.exe">>,
                    <<"wps", "wps office">>}

\* detect_wps_type
WpsTypes == {"wps", "wps_excel", ""}

\* utils/win32/detector.py detect_active_app
detect_active_app_win(process_name, process_path, wps) ==
    IF Contains("winword", process_name) THEN "word"
    ELSE IF Contains("excel", process_name) THEN "excel"
    ELSE IF process_name = "et.exe" THEN "wps_excel"
    ELSE IF Contains("wps", process_name) THEN wps
    ELSE IF process_path # "" THEN process_path
    ELSE process_name

\* name and bundle id of a running application; NoApp when the query fails
MacNames == {"Notion", "Microsoft Word", "WPS Office", "Electron", ""}
MacBundles == {"", "Notion.ID", "md.obsidian"}
NoApp == [name |-> "", bundle_id |-> "", found |-> FALSE]
MacApps == [name : MacNames, bundle_id : MacBundles, found : {TRUE}] \cup {NoApp}

\* the app record detect_active_app settles on: the osascript answer,
\* replaced by the NSWorkspace answer when it has no bundle id or is Electron
FrontApp(osa, ns) ==
    IF ~osa.found THEN NoApp
    ELSE IF (osa.bundle_id = "" \/ LowerId(osa.name) = "electron")
            /\ ns.found /\ ns.bundle_id # ""
         THEN ns
         ELSE osa

\* utils/macos/detector.py detect_active_app
detect_active_app_mac(osa, ns, wps) ==
    LET app == FrontApp(osa, ns) IN
    IF ~app.found THEN ""
    ELSE LET name == LowerId(app.name) IN
         IF name \in {"word", "microsoft word"} THEN "word"
         ELSE IF name \in {"excel", "microsoft excel"} THEN "excel"
         ELSE IF Contains("wps", name) \/ Contains("kingsoft", name)
              THEN IF wps = "" THEN "wps" ELSE wps
              ELSE IF app.bundle_id # "" THEN LowerId(app.bundle_id)
                   ELSE app.name

DetectArgs ==
    [platform : {"win32"}, exe : WinExes, name_ok : BOOLEAN, path_ok : BOOLEAN]
    \cup [platform : {"macos"}, osa : MacApps, ns : MacApps]

InitDetect ==
    /\ arg \in DetectArgs
    /\ pc = "loaded"
    /\ results = <<>>
    /\ conv = NoConv
    /\ ui = NoUi
    /\ cfg = DefaultCfg
    /\ title = TitleEmpty
    /\ target = ""
    /\ routes = NoRoutes
    /\ wf = "None"
    /\ running = FALSE
    /\ inflight = 0
    /\ dropped = FALSE
    /\ clip = EmptyClipboard
    /\ clip0 = clip
    /\ snap = NoSnap
    /\ guardPre = clip
    /\ ctype = "None"
    /\ exc = "none"
    /\ notes = <<>>
    /\ events = <<>>
    /\ escaped = {}

\* target_app = detect_active_app()
DetectActiveApp ==
    /\ pc = "loaded"
    /\ \E wps \in WpsTypes :
          target' = IF arg.platform = "win32"
                    THEN detect_active_app_win(
                             get_foreground_process_name(arg.exe, arg.name_ok),
                             get_foreground_process_path(arg.exe, arg.path_ok), wps)
                    ELSE detect_active_app_mac(arg.osa, arg.ns, wps)
    /\ pc' = "detected"
    /\ UNCHANGED <<ui, arg, results, conv, cfg, title, routes, wf, running, inflight,
                   dropped, clip, clip0, snap, guardPre, ctype, exc, notes, events,
                   escaped>>

NextDetect == DetectActiveApp

SpecDetect == InitDetect /\ [][NextDetect]_vars

(***************************************************************************)
(* SpecRace: two route() executions that paste through preserve_clipboard   *)
(***************************************************************************)
\* route() and preserve_clipboard hold no lock: each execution has its own
\* snapshot local and both use the one OS clipboard.
Execs == {1, 2}

GuardWorkflows == {"HtmlWorkflow", "LatexWorkflow"}

NoExec(w) == [wf |-> w, pc |-> "guard_enter", snap |-> NoSnap, failed |-> FALSE]

Other(p) == 3 - p

InGuard(e) == e.pc \in {"guard_write", "guard_restore"}

RaceStep(a, c) ==
    /\ arg' = a
    /\ clip' = c
    /\ UNCHANGED <<ui, results, conv, cfg, title, target, routes, wf, pc, running,
                   inflight, dropped, clip0, snap, guardPre, ctype, exc, notes,
                   events, escaped>>

InitRace ==
    /\ arg \in [exec : [Execs -> {NoExec(w) : w \in GuardWorkflows}],
                overlap : {FALSE}]
    /\ clip \in UserClipboards
    /\ clip0 = clip
    /\ guardPre = clip
    /\ pc = "idle"
    /\ results = <<>>
    /\ conv = NoConv
    /\ ui = NoUi
    /\ cfg = DefaultCfg
    /\ title = TitleEmpty
    /\ target = ""
    /\ routes = NoRoutes
    /\ wf = "None"
    /\ running = FALSE
    /\ inflight = 0
    /\ dropped = FALSE
    /\ snap = NoSnap
    /\ ctype = "None"
    /\ exc = "none"
    /\ notes = <<>>
    /\ events = <<>>
    /\ escaped = {}

\* snapshot = _snapshot_clipboard() of execution p
RaceEnter(p) ==
    /\ arg.exec[p].pc = "guard_enter"
    /\ \E o \in SnapshotOutcomes :
          RaceStep([arg EXCEPT
                      !.exec[p].snap = [taken |-> TRUE, data |-> SnapshotClipboard(clip, o)],
                      !.exec[p].failed = (o # "ok"),
                      !.exec[p].pc = "guard_write",
                      !.overlap = @ \/ InGuard(arg.exec[Other(p)])],
                   clip)

\* the block of execution p: the clipboard write and the paste keystroke
RaceWrite(p) ==
    /\ arg.exec[p].pc = "guard_write"
    /\ RaceStep([arg EXCEPT !.exec[p].pc = "guard_restore"],
                GuardedWrite(arg.exec[p].wf))

RaceRestoreSkipped(p) ==
    /\ arg.exec[p].pc = "guard_restore"
    /\ RaceStep([arg EXCEPT !.exec[p].pc = "done"], clip)

\* finally of execution p: sleep, then _restore_clipboard(snapshot)
RaceRestore(p) ==
    /\ arg.exec[p].pc = "guard_restore"
    /\ \E o \in RestoreOutcomes :
          RaceStep([arg EXCEPT !.exec[p].pc = "done",
                              !.exec[p].failed = @ \/ o # "ok"],
                   RestoreClipboard(clip, arg.exec[p].snap.data, o))

NextRace ==
    \E p \in Execs :
       \/ RaceEnter(p)
       \/ RaceWrite(p)
       \/ RaceRestore(p)

SpecRace == InitRace /\ [][NextRace]_vars

(***************************************************************************)
(* SpecHtml: is_plain_html_fragment on one fragment                         *)
(***************************************************************************)
\* What the heuristic looks at in a fragment: whether it is blank, how many
\* tags of SEMANTIC_TAGS it has, whether one of them is among the tags the
\* parserless fallback searches for, whether it has a tag outside
\* INLINE_WRAPPER_TAGS, whether "ybc" occurs in it and a tag carries a
\* Yuanbao class, whether its text is empty and how many MARKDOWN_HINTS the
\* text contains.
MaxTags == 2

MaxHints == 3

Fragments ==
    {f \in [blank : BOOLEAN, semantic : 0..MaxTags, basic : BOOLEAN, other : BOOLEAN,
            ybc : BOOLEAN, ybc_class : BOOLEAN, text_empty : BOOLEAN,
            hints : 0..MaxHints] :
        /\ f.blank => (f.semantic = 0 /\ ~f.other /\ ~f.ybc /\ f.text_empty)
        /\ f.basic => f.semantic > 0
        /\ f.semantic > 0 => f.other
        /\ f.ybc_class => f.ybc
        /\ f.text_empty => f.hints = 0}

\* The process: BeautifulSoup importable or not, and what get_clipboard_text
\* gives when the heuristic asks for it
ClipboardTexts == {"unreadable", "", "plain", "markdown"}

\* clipboard_text and is_markdown(clipboard_text)
TextIsMarkdown(t) == t = "markdown"

\* _markdown_hint_score(text) >= 2
ManyHints(f) == f.hints >= 2

\* is_plain_html_fragment with the hint score ahead of the semantic count
is_plain_html_fragment_hints_first(f, bs4, text) ==
    IF f.blank THEN TRUE
    ELSE IF ~bs4 THEN ~f.basic
    ELSE IF f.ybc /\ f.ybc_class /\ TextIsMarkdown(text) THEN TRUE
    ELSE IF ~f.text_empty /\ ManyHints(f) THEN TRUE
    ELSE IF f.semantic > 0 THEN FALSE
    ELSE IF ~f.other THEN TRUE
    ELSE f.text_empty

\* is_plain_html_fragment(html)
is_plain_html_fragment_of(f, bs4, text) ==
    IF f.blank THEN TRUE
    ELSE IF ~bs4 THEN ~f.basic
    ELSE IF f.ybc /\ f.ybc_class /\ TextIsMarkdown(text) THEN TRUE
    ELSE IF f.semantic > 0 THEN FALSE
    ELSE IF ~f.other THEN TRUE
    ELSE IF f.text_empty THEN TRUE
    ELSE ManyHints(f)

InitHtml ==
    /\ arg \in [html : Fragments, bs4 : BOOLEAN, text : ClipboardTexts]
    /\ pc = "loaded"
    /\ results = <<>>
    /\ conv = NoConv
    /\ ui = NoUi
    /\ cfg = DefaultCfg
    /\ title = TitleEmpty
    /\ target = ""
    /\ routes = NoRoutes
    /\ wf = "None"
    /\ running = FALSE
    /\ inflight = 0
    /\ dropped = FALSE
    /\ clip = EmptyClipboard
    /\ clip0 = clip
    /\ snap = NoSnap
    /\ guardPre = clip
    /\ ctype = "None"
    /\ exc = "none"
    /\ notes = <<>>
    /\ events = <<>>
    /\ escaped = {}

\* One call of is_plain_html_fragment
AnalyzeHtml ==
    /\ pc = "loaded"
    /\ results' = <<is_plain_html_fragment_of(arg.html, arg.bs4, arg.text)>>
    /\ pc' = "analyzed"
    /\ UNCHANGED <<ui, arg, conv, cfg, title, target, routes, wf, running, inflight,
                   dropped, clip, clip0, snap, guardPre, ctype, exc, notes, events,
                   escaped>>

NextHtml == AnalyzeHtml

SpecHtml == InitHtml /\ [][NextHtml]_vars

(***************************************************************************)
(* Properties of the press (Spec)                                           *)
(***************************************************************************)
PressOver == pc \in {"returned", "idle"}

GuardPcs == {"guard_write", "guard_paste", "guard_sleep", "guard_restore"}

BlockEvents == {"write", "write_failed", "paste", "paste_failed"}

\* The press has used preserve_clipboard and has left its scope.
GuardExited == Has("snapshot") /\ pc \notin GuardPcs

\* C1: every clipboard write of a workflow happens after the guard's
\* snapshot, and when the press is over the clipboard holds what it held
\* when the press began.
C1_ClipboardPreserved ==
    /\ \A i \in 1..Len(events) :
          events[i] = "write" => \E j \in 1..(i - 1) : events[j] = "snapshot"
    /\ PressOver => clip = clip0

\* C2: in every use of preserve_clipboard the snapshot precedes the block,
\* and once the block has ended, normally or by exception, there is exactly
\* one sleep followed at once by exactly one restore of that snapshot; no
\* restore happens before the block has ended.
C2_SnapshotThenOneRestore ==
    Has("snapshot") =>
       /\ Count("snapshot") = 1
       /\ \A i \in 1..Len(events) : events[i] \in BlockEvents => Pos("snapshot") < i
       /\ Count("sleep") = IF pc \in {"guard_write", "guard_paste", "guard_sleep"} THEN 0 ELSE 1
       /\ Count("restore") = IF pc \in GuardPcs THEN 0 ELSE 1
       /\ Has("restore") =>
             /\ Pos("restore") = Pos("sleep") + 1
             /\ \A i \in 1..Len(events) : events[i] \in BlockEvents => i < Pos("sleep")

\* C2 witness: a guarded block ended by an exception of simulate_paste and
\* the snapshot was restored once.
C2_Witness ==
    /\ GuardExited
    /\ Has("paste_failed")
    /\ Count("restore") = 1
    /\ Count("sleep") = 1

Captured(f) == snap.data[f] = SnapshotFormat(f, guardPre[f])

Progress == "workflow.markdown.conversion_started"

SaveFailed == "workflow.document.save_failed"

IsResult(n) == n.msg \notin {Progress, SaveFailed}

CountNotes(P(_)) == Cardinality({i \in 1..Len(notes) : P(notes[i])})

IsProgress(n) == n.msg = Progress

IsSaveFailed(n) == n.msg = SaveFailed

\* C4 as stated: a press emits at most one notification.
C4_AtMostOneNotification == Len(notes) <= 1

\* C4 amended: a press emits at most one result notification, and it is the
\* last one; before it there may be one "conversion started" message and one
\* "save failed" message, so at most three notifications in all.
C4_AtMostOneResult ==
    /\ CountNotes(IsResult) <= 1
    /\ CountNotes(IsProgress) <= 1
    /\ CountNotes(IsSaveFailed) <= 1
    /\ \A i \in 1..Len(notes) : IsResult(notes[i]) => i = Len(notes)

\* C4 witness: progress message, save failure and result in one press.
C4_Witness ==
    /\ PressOver
    /\ Len(notes) = 3
    /\ IsProgress(notes[1])
    /\ IsSaveFailed(notes[2])
    /\ IsResult(notes[3])

\* C5: when route() has returned, the press has emitted a notification.
C5_NeverSilent == (PressOver /\ events # <<>>) => Len(notes) >= 1

FallbackPcs == {"fb_detect", "fb_table", "fb_document", "fb_output"}

\* C8: when the detected target is not a key of the routing table, the
\* workflow selected and executed is the fallback workflow.
C8_FallbackOnMiss ==
    Has("miss") =>
       /\ wf = "FallbackWorkflow"
       /\ pc \in FallbackPcs \cup {"route_dispatch", "returned", "idle"}
       /\ PressOver => Has("execute") /\ Has("read") /\ ~Has("router_except")

\* C8 witness: notion.exe without a binding, the fallback workflow has run.
C8_Witness ==
    /\ Has("miss")
    /\ target = "notion.exe"
    /\ wf = "FallbackWorkflow"
    /\ pc = "returned"
    /\ Has("read")

(***************************************************************************)
(* Properties of the routing table (SpecRoutes)                             *)
(***************************************************************************)
\* C9: in every routing table built, each reserved target maps to its core
\* workflow.
C9_ReservedFixed ==
    pc = "built" =>
       \A k \in RESERVED_APPS : k \in DOMAIN routes /\ routes[k] = core_workflows[k]

\* The bindings of the enabled workflows, in the order the router visits them.
RECURSIVE BindingsFrom(_, _)
BindingsFrom(keys, c) ==
    IF keys = <<>> THEN <<>>
    ELSE LET key == Head(keys)
             own == IF c[key].enabled
                    THEN [i \in 1..Len(c[key].apps) |->
                            [wf |-> extensible_registry(key), app |-> c[key].apps[i]]]
                    ELSE <<>>
         IN  own \o BindingsFrom(Tail(keys), c)

Bindings == BindingsFrom(RegistryKeys, cfg)

Routed(k, w) == k \in DOMAIN routes /\ routes[k] = w

\* Case-insensitive regex search of the title by some pattern of the list.
SomePatternFound(ps, w) ==
    \E j \in 1..Len(ps) : RegexValid(ps[j]) /\ ReSearch(ps[j], w, TRUE)

\* C10 as stated: an enabled binding with patterns is in the table exactly
\* when the title matches one of its patterns.
C10_IncludedIffMatch ==
    pc = "built" =>
       \A i \in 1..Len(Bindings) :
          LET b == Bindings[i]
          IN  b.app.window_patterns # <<>> =>
                 (Routed(LowerId(b.app.id), b.wf)
                    <=> SomePatternFound(b.app.window_patterns, title))

\* The title is not empty and some non-empty, valid pattern finds it.
PatternHit(ps, w) ==
    /\ w # <<>>
    /\ \E j \in 1..Len(ps) :
          ps[j] # <<>> /\ RegexValid(ps[j]) /\ ReSearch(ps[j], w, TRUE)

\* Positions of the patterned bindings of key k that the title hits.
Hits(k) ==
    {i \in 1..Len(Bindings) :
        /\ LowerId(Bindings[i].app.id) = k
        /\ k # ""
        /\ Bindings[i].app.window_patterns # <<>>
        /\ PatternHit(Bindings[i].app.window_patterns, title)}

Last(S) == CHOOSE i \in S : \A j \in S : j <= i

Patternless(app) == app.window_patterns = <<>>

\* The configuration without its patterned bindings.
StripPatterned(c) ==
    [key \in DOMAIN c |->
        [enabled |-> c[key].enabled, apps |-> SelectSeq(c[key].apps, Patternless)]]

RouteKeys == DOMAIN core_workflows \cup {LowerId(id) : id \in BindIds}

\* C10 amended: a binding with patterns and an id is written into the table
\* exactly when the title is non-empty and a non-empty valid pattern finds it
\* (case-insensitive search); the last such binding of an id decides its
\* route, and an id no such binding exists for is routed as if the patterned
\* bindings were not configured.
C10_IncludedIffHit ==
    pc = "built" =>
       \A k \in RouteKeys :
          IF Hits(k) # {}
          THEN Routed(k, Bindings[Last(Hits(k))].wf)
          ELSE LET base == BuildDynamicRoutes(StripPatterned(cfg), title)
               IN  /\ k \in DOMAIN routes <=> k \in DOMAIN base
                   /\ k \in DOMAIN base => routes[k] = base[k]

\* C10 witness: the title "U-No" is found by ".*no.*" only when case is
\* ignored, and the binding of Notion.exe is in the table.
C10_Witness ==
    /\ pc = "built"
    /\ title = TitleNotion
    /\ cfg.html.enabled
    /\ cfg.html.apps = <<App("Notion.exe", <<PatNotion>>)>>
    /\ cfg.md.apps = <<>>
    /\ cfg.latex.apps = <<>>
    /\ Routed("notion.exe", "HtmlWorkflow")

\* The workflows that, for identity k and title w, have an enabled binding
\* the router takes into account: one without patterns, or one whose
\* patterns the title hits.
Claimants(k, w) ==
    {Bindings[i].wf : i \in {j \in 1..Len(Bindings) :
        /\ k # ""
        /\ LowerId(Bindings[j].app.id) = k
        /\ \/ Patternless(Bindings[j].app)
           \/ PatternHit(Bindings[j].app.window_patterns, w)}}

\* C11: when the routing table is built, no (identity, window title) pair is
\* bound by more than one workflow: a configuration in which two workflows
\* bind the same application for the same title has not reached the router.
C11_OneClaimant ==
    pc = "built" => \A k \in RouteKeys : Cardinality(Claimants(k, title)) <= 1

(***************************************************************************)
(* Converter errors of a press (Spec)                                       *)
(***************************************************************************)
HtmlConvertFailed ==
    {"workflow.html.convert_failed_generic", "workflow.html.convert_failed_format"}

MdConvertFailed == {"workflow.markdown.convert_failed"}

\* C15: a press in which the converter raised PandocError ends with the
\* HTML-conversion message when the content read was classified as HTML and
\* with the Markdown-conversion message otherwise, never with the generic
\* failure message.
C15_SourceTold ==
    (PressOver /\ Has("pandoc_error")) =>
       LET n == notes[Len(notes)]
       IN  /\ n # Generic
           /\ (ctype = "html") <=> (n.msg \in HtmlConvertFailed)
           /\ (ctype # "html") <=> (n.msg \in MdConvertFailed)

(***************************************************************************)
(* Properties of place() (SpecPlacer)                                       *)
(***************************************************************************)
PlaceOver == pc = "place_done"

FailureEvents == {"write_failed", "paste_failed", "script_failed", "script_timeout"}

Attempts ==
    Count("paste") + Count("paste_failed") + Count("script") + Count("script_failed")
       + Count("script_timeout")

\* C13 as stated: an invocation of place() makes exactly one paste keystroke
\* or scripted insert.
C13_ExactlyOne == PlaceOver => Attempts = 1

\* C13 amended: an invocation of place() makes at most one paste keystroke or
\* scripted insert and repeats none; it makes exactly one when it returns
\* success=True, except ExcelPlacer for a table without cells, and none when
\* it fails before the keystroke or the script.
C13_AtMostOne ==
    /\ Attempts <= 1
    /\ PlaceOver =>
          /\ (results[1].success /\ arg # "empty_table") => Attempts = 1
          /\ Attempts = 0 =>
                \/ arg \in {"no_paths", "empty_table"}
                \/ Has("write_failed")
                \/ results[1].error = "OSError"

\* C13 witness: the paste keystroke failed, place() returned success=False
\* and the keystroke was not sent again.
C13_Witness ==
    /\ PlaceOver
    /\ wf = "PlainTextPastePlacer"
    /\ Has("paste_failed")
    /\ Attempts = 1
    /\ ~results[1].success

PastePlacers == {"PlainTextPastePlacer", "RichTextPastePlacer", "FilePastePlacer"}

Before(a, b) ==
    \A j \in 1..Len(events) : events[j] = b =>
       \E i \in 1..(j - 1) : events[i] = a

NotAfter(a, b) ==
    \A i \in 1..Len(events), j \in 1..Len(events) :
       (events[i] = a /\ events[j] = b) => j < i

\* C14: in the PlainText, RichText and File placers every clipboard write and
\* paste keystroke comes after the snapshot of the guard and before its
\* restore, and the restore comes after the restore delay, which comes after
\* the paste keystroke of the invocation.
C14_InsideGuard ==
    wf \in PastePlacers =>
       /\ \A ev \in BlockEvents : Before("snapshot", ev) /\ NotAfter("restore", ev)
       /\ Before("sleep", "restore")
       /\ \A ev \in {"paste", "paste_failed"} : NotAfter("sleep", ev)
       /\ Count("snapshot") <= 1 /\ Count("restore") <= 1
       /\ (PlaceOver /\ Has("snapshot")) => Has("restore")

\* C14 witness: FilePastePlacer has taken the snapshot, written the file
\* list, sent the keystroke, waited and restored.
C14_Witness ==
    /\ PlaceOver
    /\ wf = "FilePastePlacer"
    /\ events = <<"place", "snapshot", "write", "paste", "sleep", "restore">>
    /\ results = <<PlacementResult(TRUE, "")>>

(***************************************************************************)
(* Properties of the converter (SpecPandoc)                                 *)
(***************************************************************************)
InitFailed ==
    \E i \in 1..Len(results) :
       /\ results[i].stage = "init"
       /\ results[i].kind = "raise" \/ results[i].value = "None"

\* C16: initialisation fails only if both probes failed: after a failed probe
\* of the configured path the default path is probed once, and when that
\* probe succeeds initialisation completes and raises nothing.
C16_RaisesOnlyIfBothFail ==
    /\ Count("probe_ok:configured") + Count("probe_failed:configured") <= 1
    /\ Count("probe_ok:default") + Count("probe_failed:default") <= 1
    /\ Has("probe_ok:default") \/ Has("probe_failed:default")
          => Has("probe_failed:configured")
    /\ InitFailed => Has("probe_failed:configured") /\ Has("probe_failed:default")

\* C18: with keep-original-formula on and HTML as the source, the HTML is
\* first converted to Markdown and the Markdown to the target; pandoc is never
\* run from HTML to the target directly.
C18_HtmlViaMarkdown ==
    (arg.op = "html_to_docx" /\ arg.keep) =>
       /\ ~Has("run:html>docx")
       /\ Before("run:html>md", "run:md>docx")
       /\ (pc = "done" /\ results[Len(results)] = Returned("convert", "docx"))
             => events[Len(events) - 3] = "run:html>md"
                /\ events[Len(events) - 2] = "exit:ok"
                /\ events[Len(events) - 1] = "run:md>docx"

\* C18 witness: an HTML source was converted with keep-original-formula on,
\* through Markdown, and the DOCX was returned.
C18_Witness ==
    /\ pc = "done"
    /\ arg = [owner |-> "DocumentGenerator", op |-> "html_to_docx", keep |-> TRUE]
    /\ Has("run:html>md")
    /\ Has("run:md>docx")
    /\ results = <<Returned("convert", "docx")>>

\* C19: a nonzero exit or an I/O failure of a pandoc run reaches the caller
\* as PandocError: not as another exception and not as a return.
C19_OnlyPandocError ==
    (pc = "done" /\ (Has("exit:nonzero") \/ Has("exit:OSError"))) =>
       results[Len(results)] = Raised("convert", "PandocError")

(***************************************************************************)
(* Properties of content classification                                    *)
(***************************************************************************)
\* C17 as stated: whenever the plain text, or the merged Markdown-file
\* text, parses as a table, every reader classifies the content as a table,
\* whether or not HTML is on the clipboard too
C17_TableAlways ==
    (ctype # "None" /\ IsTable(MarkdownText(clip0))) => ctype = "table"

\* C17 amended: the fallback workflow's _detect_content_type classifies the
\* content as a table exactly when the text it read parses as a table,
\* whether or not HTML is on the clipboard too
C17_FallbackTableFirst ==
    (wf = "FallbackWorkflow" /\ ctype # "None")
        => (ctype = "table" <=> IsTable(MarkdownText(clip0)))

C17_Witness ==
    /\ wf = "FallbackWorkflow"
    /\ pc = "fb_table"
    /\ ctype = "table"
    /\ clip0.html = "rich"
    /\ clip0.files = "table_files"


(***************************************************************************)
(* Properties of the UI task queue (SpecUi)                                 *)
(***************************************************************************)
\* C20: every dialog shown and every replacement of the tray menu is
\* executed on the thread that owns the UI, which takes it from the UI task
\* queue; none is executed on a worker, tray-callback or background thread
C20_OnUiThread ==
    \A i \in DOMAIN ui.effects : ui.effects[i].thread = "ui"

C22_ReturnsLowercase ==
    pc = "detected" => target = LowerId(target)

(***************************************************************************)
(* Properties of overlapping executions (SpecRace)                          *)
(***************************************************************************)
\* Both executions have left their guard scope and every clipboard call of
\* both snapshots and both restores succeeded
BothDone ==
    \A p \in Execs : arg.exec[p].pc = "done" /\ ~arg.exec[p].failed

CaptureFailed ==
    /\ snap.taken
    /\ guardPre # EmptyClipboard
    /\ \A f \in Formats : snap.data[f] = NoData

\* C24: when capturing the snapshot failed, leaving the guard scope does not
\* erase the clipboard
C24_FailedCaptureNotErased ==
    (GuardExited /\ CaptureFailed) => clip # EmptyClipboard

\* C28: when the restore could not set one format, the failure is logged,
\* no exception leaves the restore (a block that ended normally is followed
\* by the statement after the guard), and every other format of the
\* snapshot is on the clipboard again
C28_OtherFormatsRestored ==
    \A f \in {"text", "html"} :
       (GuardExited /\ Has("restore_set_failed_" \o f)) =>
          /\ \A g \in Formats \ {f} : clip[g] = RestoreFormat(g, snap.data[g])
          /\ (~Has("write_failed") /\ ~Has("paste_failed"))
                => (escaped = {} /\ exc = "none")

\* C28 witness: text, HTML and files were captured, the text could not be
\* set, the HTML and the files are back and the press went on to report
\* its success
C28_Witness ==
    /\ GuardExited
    /\ Has("restore_set_failed_text")
    /\ guardPre = Clip("md", "rich", "md_files")
    /\ clip = Clip(Absent, "rich", "md_files")
    /\ pc = "returned"
    /\ escaped = {}

(***************************************************************************)
(* Order of the steps of a press (Spec)                                     *)
(***************************************************************************)
\* Positions of the events of the press at which route() selected the
\* workflow (the lookup hit or missed)
Selections == {i \in 1..Len(events) : events[i] \in {"hit", "miss"}}

Reads == {i \in 1..Len(events) : events[i] = "read"}

\* C25 as stated: within a press the clipboard content is classified before
\* the workflow is selected
C25_ContentBeforeSelect ==
    \A i \in Selections : \E j \in Reads : j < i

\* C25 amended: within a press the target is detected first, then the
\* workflow is selected once, then execute is called once, and the clipboard
\* is read and classified once inside execute; nothing is notified before
\* execute is called or route() has caught an exception
C25_SelectBeforeContent ==
    /\ pc = "route_detect" => (events = <<>> /\ notes = <<>> /\ wf = "None")
    /\ Cardinality(Selections) <= 1
    /\ Count("execute") <= 1
    /\ Has("execute") => \A i \in Selections : i < Pos("execute")
    /\ Cardinality(Reads) <= 1
    /\ \A j \in Reads : Has("execute") /\ Pos("execute") < j
    /\ ctype # "None" => (Reads # {} /\ wf \in Workflows \cup {"PowerPointWorkflow"})
    /\ notes # <<>> => (Has("execute") \/ Has("router_except"))

\* C25 witness: a press that missed the table, ran the fallback workflow,
\* classified the content as Markdown and notified
C25_Witness ==
    /\ pc = "returned"
    /\ wf = "FallbackWorkflow"
    /\ events[1] = "miss"
    /\ events[2] = "execute"
    /\ events[3] = "read"
    /\ ctype = "markdown"
    /\ notes # <<>>

(***************************************************************************)
(* Properties of the converter's configuration                             *)
(***************************************************************************)
\* C26: when initialisation succeeds through the default path after the
\* probe of the configured path failed, config["pandoc_path"] holds the
\* default path and the configuration file holds it too; when the probe of
\* the configured path succeeds, or an integration is already held, the
\* configuration in memory and on disk is as it was
C26_FallbackPersisted ==
    /\ (Has("probe_ok:default") /\ ~InitFailed)
          => conv = [integration |-> "default", pandoc_path |-> "default",
                     saved_path |-> "default"]
    /\ (Has("probe_ok:configured") \/ Has("held"))
          => (conv.pandoc_path = "configured" /\ conv.saved_path = "configured")

\* C26 witness: the configured path failed its probe, the default path
\* passed, the configuration was saved and the conversion was carried out
C26_Witness ==
    /\ pc = "done"
    /\ Has("probe_failed:configured")
    /\ Has("probe_ok:default")
    /\ Has("save_ok")
    /\ conv.saved_path = "default"
    /\ results = <<Returned("convert", "docx")>>

\* A request is in progress and the request before it ended in a failure:
\* an exception, or no integration
AfterFailure ==
    /\ pc # "done"
    /\ Len(results) >= 1
    /\ results[Len(results)].kind = "raise" \/ results[Len(results)].value = "None"

\* C27 as stated: the request that follows a failed initialisation or a
\* failed conversion runs the initialisation again and does not reuse the
\* integration it holds
C27_ReinitAfterFailure ==
    AfterFailure => ~Has("held")

\* C27 amended: a request past its initialisation step has either reused
\* the integration held or probed the configured path first; it reuses the
\* integration exactly when the request before it reached a conversion,
\* failed or not, or when DocumentGenerator's initialisation failed only in
\* saving the configuration; after an initialisation whose probes both
\* failed the configured path is probed again
C27_ReinitAfterInitFailure ==
    (pc \notin {"ensure", "done"} /\ Len(results) >= 1) =>
       LET last == results[Len(results)]
       IN  /\ Has("held") <=> \/ last.stage = "convert"
                              \/ last = Raised("init", "ConfigError")
           /\ ~Has("held") => \/ Has("probe_ok:configured")
                              \/ Has("probe_failed:configured")

\* C27 witness: both probes of the first request failed, the second request
\* probed the configured path again and converted
C27_Witness ==
    /\ pc = "done"
    /\ Len(results) = 2
    /\ results[1].stage = "init"
    /\ Has("probe_ok:configured")
    /\ results[2] = Returned("convert", "docx")

(***************************************************************************)
(* Properties of the empty-clipboard test (Spec)                            *)
(***************************************************************************)
ReportedEmpty == \E i \in 1..Len(notes) : notes[i].msg = "workflow.clipboard.empty"

\* C29: a clipboard that holds an HTML fragment but no text and no files is
\* not classified as empty: the press is not reported as an empty clipboard
C29_HtmlIsNotEmpty ==
    (clip0.html # Absent /\ clip0.text = Absent /\ clip0.files = Absent)
        => ~ReportedEmpty

(***************************************************************************)
(* Properties of is_plain_html_fragment (SpecHtml)                          *)
(***************************************************************************)
\* C30 as stated: a fragment with at least one semantic tag is never judged
\* plain, whatever Markdown-like text is in it or on the clipboard (checked
\* with the parser available)
C30_SemanticIsHtml ==
    (pc = "analyzed" /\ arg.bs4 /\ arg.html.semantic > 0) => results[1] = FALSE

\* C30 amended: with the parser available, a fragment with at least one
\* semantic tag is judged plain exactly when it carries a Yuanbao class and
\* the clipboard text is Markdown; the hints in its own text play no part.
\* Without the parser it is judged plain exactly when none of its tags is
\* among those the fallback searches for.
C30_SemanticIsHtmlUnlessYuanbao ==
    (pc = "analyzed" /\ arg.html.semantic > 0) =>
       IF arg.bs4
       THEN results[1] = (arg.html.ybc_class /\ TextIsMarkdown(arg.text))
       ELSE results[1] = ~arg.html.basic

\* C30 witness: one semantic tag, a text full of Markdown hints, Markdown on
\* the clipboard, no Yuanbao class: judged HTML
C30_Witness ==
    /\ pc = "analyzed"
    /\ arg.bs4
    /\ arg.html.semantic = 1
    /\ arg.html.hints = MaxHints
    /\ ~arg.html.ybc_class
    /\ arg.text = "markdown"
    /\ results = <<FALSE>>

(***************************************************************************)
(* Success and delivery                                                     *)
(***************************************************************************)
Delivered == Has("paste") \/ Has("script")

\* C31: place() reports success, on which the workflow notifies success,
\* only if the content was delivered: the paste keystroke was issued or the
\* insertion script ran, without error
C31_SuccessOnlyIfDelivered ==
    \A i \in 1..Len(results) : results[i].success => Delivered

(***************************************************************************)
(* SpecRoute: one call of route() over every configuration                  *)
(***************************************************************************)
\* route(), lines 113-122: detect_active_app(), get_frontmost_window_title(),
\* _build_dynamic_routes(window_title) and routes.get(target_app, routes[""])
RouteCall ==
    /\ pc = "loaded"
    /\ \E a \in Targets, w \in Titles :
          LET rt == BuildDynamicRoutes(cfg, w)
          IN  /\ target' = a
              /\ title' = w
              /\ routes' = rt
              /\ wf' = RouteLookup(rt, a)
              /\ Log(IF a \in DOMAIN rt THEN "hit" ELSE "miss")
    /\ pc' = "route_dispatch"
    /\ UNCHANGED <<aux, cfg, running, inflight, dropped, clip, clip0, snap,
                   guardPre, ctype, exc, notes, escaped>>

NextRoute == RouteCall \/ RouteDispatch

SpecRoute == InitRoutes /\ [][NextRoute]_vars

(***************************************************************************)
(* The fallback route                                                       *)
(***************************************************************************)
\* C32: the table route() looks the target up in always maps "" to the
\* fallback workflow, whatever bindings are configured, and a call of route()
\* calls execute of exactly one workflow
C32_FallbackKeptOneExecute ==
    /\ pc = "route_dispatch" =>
          /\ Routed("", "FallbackWorkflow")
          /\ wf \in Workflows
          /\ ~Has("execute")
    /\ pc \notin {"loaded", "route_dispatch"} =>
          /\ Count("execute") = 1
          /\ ~Has("router_except")
          /\ pc = EntryPc(wf)

\* C32 witness: an enabled binding without an id whose pattern the title
\* matches, no application detected: the table still maps "" to the fallback
\* workflow, which is the one workflow about to be executed
C32_Witness ==
    /\ pc = "route_dispatch"
    /\ target = ""
    /\ title = TitleNotion
    /\ cfg.html.enabled
    /\ cfg.html.apps = <<App("", <<PatAny>>)>>
    /\ Routed("", "FallbackWorkflow")
    /\ wf = "FallbackWorkflow"

(***************************************************************************)
(* Patterned and patternless bindings of one identity                       *)
(***************************************************************************)
\* Positions of the enabled patternless bindings of identity k.
Plain(k) ==
    {i \in 1..Len(Bindings) :
        /\ LowerId(Bindings[i].app.id) = k
        /\ k # ""
        /\ Patternless(Bindings[i].app)}

First(S) == CHOOSE i \in S : \A j \in S : i <= j

\* C33: when an identity has a binding whose pattern the title matches and a
\* patternless binding, the route is that of a pattern-matched binding in
\* either order of the two; and a patternless binding never replaces a route
\* already in the table: a core route stays, and of several patternless
\* bindings the first one stays
C33_PatternedWins ==
    pc = "built" =>
       \A k \in RouteKeys :
          /\ (Hits(k) # {} /\ Plain(k) # {}) =>
                \E i \in Hits(k) : Routed(k, Bindings[i].wf)
          /\ (Hits(k) = {} /\ Plain(k) # {}) =>
                IF k \in DOMAIN core_workflows
                THEN Routed(k, core_workflows[k])
                ELSE Routed(k, Bindings[First(Plain(k))].wf)

\* C33 witness: Notion.exe bound without patterns to the HTML workflow and,
\* after it, with a matching pattern to the Markdown workflow: the Markdown
\* workflow is routed
C33_Witness ==
    /\ pc = "built"
    /\ title = TitleNotion
    /\ cfg.html = WfCfg(TRUE, <<App("Notion.exe", <<>>)>>)
    /\ cfg.md = WfCfg(TRUE, <<App("Notion.exe", <<PatNotion>>)>>)
    /\ Routed("notion.exe", "MdWorkflow")

(***************************************************************************)
(* The four sections of extensible_workflows                                *)
(***************************************************************************)
\* The sections DEFAULT_CONFIG["extensible_workflows"] has.
ConfigKeys == {"html", "md", "latex", "file"}

\* The pipeline a section names.
PipelineOf(key) ==
    IF key = "file" THEN "FileWorkflow" ELSE extensible_registry(key)

\* Section key is enabled and has a binding of the detected target that
\* applies to the window: one without patterns, or one whose patterns the
\* title hits.
Applies(key) ==
    /\ cfg[key].enabled
    /\ target # ""
    /\ \E i \in 1..Len(cfg[key].apps) :
          LET app == cfg[key].apps[i]
          IN  /\ LowerId(app.id) = target
              /\ \/ Patternless(app)
                 \/ PatternHit(app.window_patterns, title)

\* C34: for each of the sections html, md, latex and file, an enabled binding
\* of the target that applies to the window makes route() choose that
\* section's pipeline, not the fallback workflow
C34_BindingRoutes ==
    pc = "route_dispatch" =>
       \A key \in ConfigKeys : Applies(key) => wf = PipelineOf(key)

\* The same for the three sections extensible_registry has a workflow for.
C34_RegisteredBindingRoutes ==
    pc = "route_dispatch" =>
       \A key \in ConfigKeys \ {"file"} : Applies(key) => wf = PipelineOf(key)

(***************************************************************************)
(* Timeout of the insertion script                                          *)
(***************************************************************************)
ScriptRuns == Count("script") + Count("script_failed") + Count("script_timeout")

\* C35: an insertion script that has not completed within its timeout makes
\* place() return success=False, and the script is not run again
C35_TimeoutFails ==
    (pc = "place_done" /\ Has("script_timeout")) =>
       /\ Len(results) = 1
       /\ ~results[1].success
       /\ ScriptRuns = 1

\* C35 witness: WordPlacer's script timed out and place() returned failure
C35_Witness ==
    /\ pc = "place_done"
    /\ wf = "WordPlacer"
    /\ events = <<"place", "script_timeout">>
    /\ results = <<PlacementResult(FALSE, "Exception")>>

(***************************************************************************)
(* SpecWord: WordPlacer.place() on macOS and the document it inserts into   *)
(***************************************************************************)
MaxDoc == 2

Letters == <<"a", "b", "c">>

\* The inserted file, as one character of the document.
Inserted == "X"

\* The active document before the call: closed, or open with a text and a
\* selection from position s to position e (s = e is a bare cursor).
WordDocs ==
    {[open |-> FALSE, text |-> <<>>, sel |-> <<0, 0>>]}
    \cup {[open |-> TRUE, text |-> SubSeq(Letters, 1, n), sel |-> <<s, e>>] :
             n \in 0..MaxDoc, s \in 0..MaxDoc, e \in 0..MaxDoc}

\* The two implementations of WordPlacer in the repository.
WordImpls == {"service", "domains"}

WordArgs ==
    {a \in [impl : WordImpls, move_cursor_to_end : BOOLEAN, doc : WordDocs] :
        a.doc.sel[1] <= a.doc.sel[2] /\ a.doc.sel[2] <= Len(a.doc.text)}

\* text with the characters s+1..e replaced by the inserted file
InsertAt(text, s, e) ==
    SubSeq(text, 1, s) \o <<Inserted>> \o SubSeq(text, e + 1, Len(text))

\* service/document/macos/word.py, the script of _applescript_insert: a
\* selection is deleted, the file is inserted at the selection and Word
\* leaves the new content selected; move_cursor_to_end is not read.
ServiceScript(doc, move_cursor_to_end) ==
    {[text |-> InsertAt(doc.text, doc.sel[1], doc.sel[2]),
      sel  |-> <<doc.sel[1], doc.sel[1] + 1>>]}

\* domains/document/macos/word.py, the scripts of _applescript_insert: with
\* the flag the file is inserted at a range at the end of the content and a
\* bare cursor is selected at the end of that range; without it the file is
\* inserted at the range of the selection, whose text "insert file" keeps,
\* before or after it.
DomainsScript(doc, move_cursor_to_end) ==
    IF move_cursor_to_end
    THEN {[text |-> InsertAt(doc.text, Len(doc.text), Len(doc.text)),
           sel  |-> <<Len(doc.text) + 1, Len(doc.text) + 1>>]}
    ELSE {[text |-> InsertAt(doc.text, k, k), sel |-> <<k, k + 1>>] :
             k \in {doc.sel[1], doc.sel[2]}}

WordScript(a) ==
    IF a.impl = "service" THEN ServiceScript(a.doc, a.move_cursor_to_end)
    ELSE DomainsScript(a.doc, a.move_cursor_to_end)

InitWord ==
    /\ arg \in WordArgs
    /\ pc = "loaded"
    /\ results = <<>>
    /\ conv = NoConv
    /\ ui = NoUi
    /\ cfg = DefaultCfg
    /\ title = TitleEmpty
    /\ target = "word"
    /\ routes = NoRoutes
    /\ wf = "WordPlacer"
    /\ running = FALSE
    /\ inflight = 0
    /\ dropped = FALSE
    /\ clip = EmptyClipboard
    /\ clip0 = clip
    /\ snap = NoSnap
    /\ guardPre = clip
    /\ ctype = "None"
    /\ exc = "none"
    /\ notes = <<>>
    /\ events = <<>>
    /\ escaped = {}

\* WordPlacer.place(docx_bytes, config): the temporary file, one osascript
\* run ("make new document" when none is open) and the result.
WordPlace ==
    /\ pc = "loaded"
    /\ \E o \in ScriptOutcomes :
          IF o = "ok"
          THEN /\ Log("script")
               /\ \E d \in WordScript(arg) :
                     results' = <<[success |-> TRUE, text |-> d.text, sel |-> d.sel]>>
          ELSE /\ Log(IF o = "TimeoutExpired" THEN "script_timeout" ELSE "script_failed")
               /\ results' = <<[success |-> FALSE, text |-> arg.doc.text,
                                sel |-> arg.doc.sel]>>
    /\ pc' = "placed"
    /\ UNCHANGED <<ui, arg, conv, cfg, title, target, routes, wf, running, inflight,
                   dropped, clip, clip0, snap, guardPre, ctype, exc, notes, escaped>>

NextWord == WordPlace

SpecWord == InitWord /\ [][NextWord]_vars

(***************************************************************************)
(* The cursor policy of WordPlacer                                          *)
(***************************************************************************)
\* C36: with move_cursor_to_end true the file is inserted at the end of the
\* document and the selection then ends after the inserted content; with it
\* false the file is inserted at the selection, whose text it replaces
C36_HonoursFlag ==
    (pc = "placed" /\ results[1].success) =>
       LET old == arg.doc.text
           s   == arg.doc.sel[1]
           e   == arg.doc.sel[2]
       IN  IF arg.move_cursor_to_end
           THEN /\ results[1].text = old \o <<Inserted>>
                /\ results[1].sel[2] = Len(old) + 1
           ELSE results[1].text = InsertAt(old, s, e)

(***************************************************************************)
(* SpecWps: detect_wps_type                                                 *)
(***************************************************************************)
\* Substrings of a window title that the two detectors look for, one of
\* each list they search.
ExcelExtensions == {".xlsx"}
WordExtensions  == {".docx"}
ExcelKeywords   == {" - WPS Spreadsheets"}
WordKeywords    == {" - WPS Writer"}

\* A window title, as the set of those substrings it contains; {} also
\* stands for the title that could not be read.
WpsTitles == SUBSET (ExcelExtensions \cup WordExtensions \cup ExcelKeywords \cup WordKeywords)

\* The part of detect_wps_type both platforms share: extensions of
\* spreadsheets, extensions of documents, keywords of spreadsheets, keywords
\* of documents, default.
WpsTypeByTitle(window_title) ==
    IF window_title \cap ExcelExtensions # {} THEN "wps_excel"
    ELSE IF window_title \cap WordExtensions # {} THEN "wps"
    ELSE IF window_title \cap ExcelKeywords # {} THEN "wps_excel"
    ELSE IF window_title \cap WordKeywords # {} THEN "wps"
    ELSE "wps"

\* What GetActiveObject("ket.Application" / "ET.Application") yields: no
\* running spreadsheet object, one whose ActiveDocument.Name raises, one
\* whose name is or is not a substring of the window title.
ComStates == {"none", "no_name", "in_title", "not_in_title"}

\* utils/win32/detector.py detect_wps_type: the COM test, then the title
detect_wps_type_win(window_title, com) ==
    IF com = "in_title" THEN "wps_excel" ELSE WpsTypeByTitle(window_title)

\* utils/macos/detector.py detect_wps_type
detect_wps_type_mac(window_title) ==
    IF window_title = {} THEN "wps" ELSE WpsTypeByTitle(window_title)

WpsArgs == [platform : {"win32", "macos"}, title : WpsTitles, com : ComStates]

InitWps ==
    /\ arg \in {a \in WpsArgs : a.platform = "macos" => a.com = "none"}
    /\ pc = "loaded"
    /\ results = <<>>
    /\ conv = NoConv
    /\ ui = NoUi
    /\ cfg = DefaultCfg
    /\ title = TitleEmpty
    /\ target = ""
    /\ routes = NoRoutes
    /\ wf = "None"
    /\ running = FALSE
    /\ inflight = 0
    /\ dropped = FALSE
    /\ clip = EmptyClipboard
    /\ clip0 = clip
    /\ snap = NoSnap
    /\ guardPre = clip
    /\ ctype = "None"
    /\ exc = "none"
    /\ notes = <<>>
    /\ events = <<>>
    /\ escaped = {}

\* wps_type = detect_wps_type()
DetectWpsType ==
    /\ pc = "loaded"
    /\ target' = IF arg.platform = "win32"
                 THEN detect_wps_type_win(arg.title, arg.com)
                 ELSE detect_wps_type_mac(arg.title)
    /\ pc' = "detected"
    /\ UNCHANGED <<ui, arg, results, conv, cfg, title, routes, wf, running, inflight,
                   dropped, clip, clip0, snap, guardPre, ctype, exc, notes, events,
                   escaped>>

NextWps == DetectWpsType

SpecWps == InitWps /\ [][NextWps]_vars

(***************************************************************************)
(* The order of the signals of detect_wps_type                              *)
(***************************************************************************)
\* The sub-modes the substrings of set S of the title speak for.
Modes(S, excel, word) ==
    (IF S \cap excel # {} THEN {"wps_excel"} ELSE {})
       \cup (IF S \cap word # {} THEN {"wps"} ELSE {})

\* C37: the sub-mode is the one of a file extension in the title if there is
\* one, otherwise the one of a keyword in the title if there is one,
\* otherwise "wps"; nothing takes precedence over an extension in the title
C37_ExtensionFirst ==
    pc = "detected" =>
       LET byExt == Modes(arg.title, ExcelExtensions, WordExtensions)
           byKw  == Modes(arg.title, ExcelKeywords, WordKeywords)
       IN  IF byExt # {} THEN target \in byExt
           ELSE IF byKw # {} THEN target \in byKw
           ELSE target = "wps"

\* The same on macOS, where the title is the only signal.
C37_ExtensionFirstMac == arg.platform = "macos" => C37_ExtensionFirst

(***************************************************************************)
(* Failing queries of detect_active_app (SpecDetect)                        *)
(***************************************************************************)
\* detect_active_app made a query that failed: the process name or the
\* process path on Windows; on macOS the osascript query, or the NSWorkspace
\* query made when the osascript answer has no bundle id or is Electron.
SomeQueryFailed ==
    IF arg.platform = "win32"
    THEN ~arg.name_ok \/ ~arg.path_ok
    ELSE \/ ~arg.osa.found
         \/ /\ arg.osa.bundle_id = "" \/ LowerId(arg.osa.name) = "electron"
            /\ ~arg.ns.found

\* Every query detect_active_app made for the identity failed.
AllQueriesFailed ==
    IF arg.platform = "win32"
    THEN ~arg.name_ok /\ ~arg.path_ok
    ELSE ~arg.osa.found

\* route() with target "" executes the fallback workflow.
EmptyIsFallback ==
    \A c \in PressConfigs, w \in Titles :
       RouteLookup(BuildDynamicRoutes(c, w), "") = "FallbackWorkflow"

QuitPos ==
    IF \E i \in 1..Len(ui.put) : ui.put[i] = "None"
    THEN CHOOSE i \in 1..Len(ui.put) :
            ui.put[i] = "None" /\ \A j \in 1..(i - 1) : ui.put[j] # "None"
    ELSE Len(ui.put) + 1

\* C39: the tasks executed are, in order and each once, the first tasks put
\* on the queue; until the quit signal is taken the tasks not yet executed
\* are still queued in their order and the polling is scheduled, also after
\* a task raised; no task put after the quit signal is executed
C39_FifoOnceSurvivesRaise ==
    /\ Len(ui.ran) <= Len(ui.put)
    /\ \A i \in 1..Len(ui.ran) : ui.ran[i].task = ui.put[i] /\ i < QuitPos
    /\ ~ui.quit =>
          /\ ui.armed
          /\ ui.queue = SubSeq(ui.put, Len(ui.ran) + 1, Len(ui.put))

\* C39 witness: the first task raised and was logged, the second was
\* executed after it, a third is queued and the polling goes on
C39_Witness ==
    /\ ~ui.quit
    /\ ui.armed
    /\ Len(ui.ran) = 2
    /\ ui.ran[1].raised
    /\ ~ui.ran[2].raised
    /\ Len(ui.queue) = 1

\* A task put after the quit signal is still queued when the loop has ended.
QuitLeavesLaterTask ==
    /\ ui.quit
    /\ QuitPos < Len(ui.put)
    /\ Len(ui.ran) < QuitPos

(***************************************************************************)
(* The hotkey listener while a dialog is open (SpecUi)                      *)
(***************************************************************************)
\* C40: while a hotkey or settings dialog opened from the tray is alive the
\* hotkey listener is paused, and once no dialog is left every pause has
\* been matched by exactly one resume
C40_PausedWhileDialogAlive ==
    /\ ui.dialogs # {} => ui.listener = "paused"
    /\ ui.resumes <= ui.pauses
    /\ ui.dialogs = {} => ui.resumes = ui.pauses

====
